---- MODULE Spec2Model ----
(***************************************************************************)
(* Model of the ExploreOS memory subsystems: the RangeSet of free          *)
(* physical ranges (shared/range_set), the two-level page directory        *)
(* (shared/page_tables), the kernel's PhysicalMemory with its transient    *)
(* window and the kernel heap free list (kernel/src/memory_manager.rs).    *)
(*                                                                         *)
(* Machine words are u32 in the source.  The model scales the word: a page *)
(* has 2^PageBits bytes, a page table and the page directory hold          *)
(* PAGE_SIZE/4 entries of 4 bytes, and a word has as many bits as a        *)
(* virtual address needs (directory index, table index, page offset), so   *)
(* that PageBits = 12 gives exactly the 10+10+12 = 32 bits of x86.         *)
(***************************************************************************)
EXTENDS Integers, Sequences, FiniteSets, TLC

\* ------------------------------------------------------------------------
\* Scaling of the machine word
\* ------------------------------------------------------------------------

\* log2 of the page size (12 in the source)
PageBits == 5

RECURSIVE Pow2(_)
Pow2(n) == IF n = 0 THEN 1 ELSE 2 * Pow2(n - 1)

\* bits of a directory index and of a table index (10 in the source)
IndexBits == PageBits - 2

\* bits of a machine word (32 in the source)
WordBits == 2 * IndexBits + PageBits

U32_MAX == Pow2(WordBits) - 1

U32 == 0..U32_MAX

\* u32::saturating_add and u32::saturating_sub
saturating_add(a, b) == IF a + b > U32_MAX THEN U32_MAX ELSE a + b

saturating_sub(a, b) == IF a - b < 0 THEN 0 ELSE a - b

\* `a + b` and `a - b` on u32.  With overflow checks compiled in, an overflow
\* panics; without them (cargo's release profile) the result wraps.
Add32(a, b, checks) ==
    [panic |-> checks /\ a + b > U32_MAX, val |-> (a + b) % (U32_MAX + 1)]

Sub32(a, b, checks) ==
    [panic |-> checks /\ a - b < 0, val |-> (a - b + U32_MAX + 1) % (U32_MAX + 1)]

\* u32::count_ones
RECURSIVE count_ones(_)
count_ones(n) == IF n = 0 THEN 0 ELSE (n % 2) + count_ones(n \div 2)

\* ------------------------------------------------------------------------
\* shared/range_set
\* ------------------------------------------------------------------------

MAX_NUM_RANGES == 32

InclusiveRange(s, e) == [start |-> s, end |-> e]

Min(a, b) == IF a <= b THEN a ELSE b

Max(a, b) == IF a >= b THEN a ELSE b

\* RangeSet::delete: the ranges after idx move back by one
delete(rs, idx) ==
    [i \in 1..(Len(rs) - 1) |-> IF i < idx THEN rs[i] ELSE rs[i + 1]]

\* should_merge_ranges without the `+ 1`: only overlapping ranges merge
should_merge_ranges_overlap_only(a0, b0) ==
    LET a == IF a0.start > b0.start THEN b0 ELSE a0
        b == IF a0.start > b0.start THEN a0 ELSE b0
    IN  b.start <= a.end

\* should_merge_ranges: the ranges overlap or are contiguous
should_merge_ranges(a0, b0) ==
    LET a == IF a0.start > b0.start THEN b0 ELSE a0
        b == IF a0.start > b0.start THEN a0 ELSE b0
    IN  b.start <= saturating_add(a.end, 1)

do_ranges_overlap(a, b) ==
    \/ (a.start <= b.start /\ b.start <= a.end)
    \/ (b.start <= a.start /\ a.start <= b.end)

does_range_contain(a, b) == (a.start <= b.start) /\ (b.end <= a.end)

\* The 'try_merge loop of RangeSet::insert: the first stored range that
\* should merge is absorbed into `range` and deleted, then the search restarts.
RECURSIVE insert_merge(_, _)
insert_merge(rs, range) ==
    LET hits == {i \in 1..Len(rs) : should_merge_ranges(range, rs[i])}
    IN  IF hits = {} THEN [ranges |-> rs, range |-> range]
        ELSE LET i == CHOOSE j \in hits : \A k \in hits : j <= k
             IN  insert_merge(delete(rs, i),
                              InclusiveRange(Min(range.start, rs[i].start),
                                             Max(range.end, rs[i].end)))

\* RangeSet::insert.  panic: one of its assertions failed.
insert(rs, range) ==
    IF ~(range.start <= range.end) THEN [panic |-> TRUE, ranges |-> rs]
    ELSE LET m == insert_merge(rs, range)
         IN  IF ~(Len(m.ranges) < MAX_NUM_RANGES)
             THEN [panic |-> TRUE, ranges |-> m.ranges]
             ELSE [panic |-> FALSE, ranges |-> Append(m.ranges, m.range)]

\* remove_scan whose split starts the right-hand range at range.end instead of
\* range.end + 1
RECURSIVE remove_scan_split_off_by_one(_, _, _)
remove_scan_split_off_by_one(rs, range, i) ==
    IF i > Len(rs) THEN [panic |-> FALSE, ranges |-> rs]
    ELSE IF ~do_ranges_overlap(range, rs[i])
         THEN remove_scan_split_off_by_one(rs, range, i + 1)
    ELSE IF does_range_contain(range, rs[i])
         THEN remove_scan_split_off_by_one(delete(rs, i), range, 1)
    ELSE IF range.start <= rs[i].start
         THEN remove_scan_split_off_by_one(
                  [rs EXCEPT ![i].start = saturating_add(range.end, 1)], range, i + 1)
    ELSE IF range.end >= rs[i].end
         THEN remove_scan_split_off_by_one(
                  [rs EXCEPT ![i].end = saturating_sub(range.start, 1)], range, i + 1)
    ELSE IF ~(Len(rs) < MAX_NUM_RANGES) THEN [panic |-> TRUE, ranges |-> rs]
    ELSE [panic |-> FALSE,
          ranges |-> Append([rs EXCEPT ![i].end = saturating_sub(range.start, 1)],
                            InclusiveRange(range.end, rs[i].end))]

\* The 'try_subtract loop of RangeSet::remove, at index i of the inner for.
RECURSIVE remove_scan(_, _, _)
remove_scan(rs, range, i) ==
    IF i > Len(rs) THEN [panic |-> FALSE, ranges |-> rs]
    ELSE IF ~do_ranges_overlap(range, rs[i]) THEN remove_scan(rs, range, i + 1)
    ELSE IF does_range_contain(range, rs[i]) THEN remove_scan(delete(rs, i), range, 1)
    ELSE IF range.start <= rs[i].start
         THEN remove_scan([rs EXCEPT ![i].start = saturating_add(range.end, 1)],
                          range, i + 1)
    ELSE IF range.end >= rs[i].end
         THEN remove_scan([rs EXCEPT ![i].end = saturating_sub(range.start, 1)],
                          range, i + 1)
    ELSE IF ~(Len(rs) < MAX_NUM_RANGES) THEN [panic |-> TRUE, ranges |-> rs]
    ELSE [panic |-> FALSE,
          ranges |-> Append([rs EXCEPT ![i].end = saturating_sub(range.start, 1)],
                            InclusiveRange(saturating_add(range.end, 1), rs[i].end))]

\* RangeSet::remove
remove(rs, range) ==
    IF ~(range.start <= range.end) THEN [panic |-> TRUE, ranges |-> rs]
    ELSE remove_scan(rs, range, 1)

\* RangeSet::total_size; None (the whole address space) is -1
RECURSIVE total_size(_)
total_size(rs) ==
    IF rs = <<>> THEN 0
    ELSE LET r == rs[1]
             rest == total_size(Tail(rs))
         IN  IF r.end - r.start = U32_MAX \/ rest = -1 THEN -1
             ELSE rest + (r.end - r.start) + 1

\* round_up_to_pow_of_2: val & mask is val % power, val & !mask is
\* val - val % power, for a power of two
round_up_to_pow_of_2(val, power, checks) ==
    IF val % power = 0 THEN [panic |-> FALSE, val |-> val]
    ELSE Add32(val - (val % power), power, checks)

\* No allocation found yet (Option::None of best_allocation)
NoBest == <<>>

\* The for loop of RangeSet::allocate at index i; best is NoBest or
\* <<padding_needed, allocation_addr>>.
RECURSIVE allocate_scan(_, _, _, _, _, _)
allocate_scan(rs, size, align, i, best, checks) ==
    IF i > Len(rs) THEN [panic |-> FALSE, best |-> best]
    ELSE
    LET next_aligned_start == round_up_to_pow_of_2(rs[i].start, align, checks)
        room == Sub32(rs[i].end, next_aligned_start.val, checks)
        padding_needed == Sub32(next_aligned_start.val, rs[i].start, checks)
    IN  IF next_aligned_start.panic \/ room.panic THEN [panic |-> TRUE, best |-> best]
        ELSE IF size <= saturating_add(room.val, 1)
        THEN IF padding_needed.panic THEN [panic |-> TRUE, best |-> best]
             ELSE IF best = NoBest \/ padding_needed.val < best[1]
                  THEN allocate_scan(rs, size, align, i + 1,
                                     <<padding_needed.val, next_aligned_start.val>>, checks)
                  ELSE allocate_scan(rs, size, align, i + 1, best, checks)
        ELSE allocate_scan(rs, size, align, i + 1, best, checks)

\* RangeSet::allocate.  some: an address is returned (addr); otherwise None.
allocate(rs, size, align, checks) ==
    IF size = 0 \/ count_ones(align) # 1
    THEN [panic |-> FALSE, some |-> FALSE, addr |-> 0, ranges |-> rs]
    ELSE
    LET scan == allocate_scan(rs, size, align, 1, NoBest, checks)
    IN  IF scan.panic THEN [panic |-> TRUE, some |-> FALSE, addr |-> 0, ranges |-> rs]
        ELSE IF scan.best = NoBest
        THEN [panic |-> FALSE, some |-> FALSE, addr |-> 0, ranges |-> rs]
        ELSE
        LET allocation_addr == scan.best[2]
            last == Add32(allocation_addr, size - 1, checks)
            rem == remove(rs, InclusiveRange(allocation_addr, last.val))
        IN  IF last.panic \/ rem.panic
            THEN [panic |-> TRUE, some |-> FALSE, addr |-> 0, ranges |-> rs]
            ELSE [panic |-> FALSE, some |-> TRUE, addr |-> allocation_addr,
                  ranges |-> rem.ranges]

\* ------------------------------------------------------------------------
\* Physical memory and the address space the kernel runs in
\* ------------------------------------------------------------------------

PAGE_SIZE == Pow2(PageBits)

\* entries of a page table and of the page directory (1024 in the source)
ENTRIES == PAGE_SIZE \div 4

PAGE_ENTRY_PRESENT == 1

PAGE_ENTRY_WRITE == 2

PAGE_ENTRY_USER == 4

PAGE_ENTRY_PWT == 8

PAGE_ENTRY_PCD == 16

\* the last virtual page (0xFFFFF000) and the page below it (0xFFFFE000)
WINDOW_VADDR == U32_MAX + 1 - PAGE_SIZE

LAST_PAGE_TABLE_VADDR == U32_MAX + 1 - 2 * PAGE_SIZE

\* entry & PAGE_ENTRY_PRESENT != 0
Present(entry) == entry % 2 = 1

\* entry & !0xfff, addr & 0xfff
FrameOf(entry) == entry - (entry % PAGE_SIZE)

PageOffset(addr) == addr % PAGE_SIZE

\* virt >> 22 and (virt >> 12) & 0x3FF
DirectoryIndex(virt) == virt \div (PAGE_SIZE * ENTRIES)

TableIndex(virt) == (virt \div PAGE_SIZE) % ENTRIES

\* Option::None of current_phys_mapping
NoMapping == 0 - 1

\* Physical layout handed over by the bootloader: frame 0 is low memory, the
\* frame at BOOT_DIRECTORY holds the page directory of CR3 and the frame at
\* boot_args.last_page_table_paddr the page table of the last 4 MiB, which the
\* bootloader maps at LAST_PAGE_TABLE_VADDR.  NumFreeFrames whole frames above
\* them are free.
NumFreeFrames == 3

BOOT_DIRECTORY == 2 * PAGE_SIZE

LAST_PAGE_TABLE_PADDR == 3 * PAGE_SIZE

FirstFreeFrame == 4 * PAGE_SIZE

\* The most free frames a machine that runs processes starts with
NumProcFrames == 13

RamFrames == {f * PAGE_SIZE : f \in 0..(3 + NumFreeFrames + NumProcFrames)}

ZeroFrame == [i \in 0..(ENTRIES - 1) |-> 0]

\* The machine state the memory functions work on: the free physical ranges
\* (PhysicalMemory.memory_ranges), current_phys_mapping, the words of physical
\* memory, and whether a panic or a fault has stopped the kernel.
Machine(rs, cur, mem, panic) ==
    [memory_ranges |-> rs, current_phys_mapping |-> cur, mem |-> mem, panic |-> panic]

Ret(some, val, m) == [some |-> some, val |-> val, m |-> m]

None(m) == Ret(FALSE, 0, m)

Some(val, m) == Ret(TRUE, val, m)

Stop(m) == Ret(FALSE, 0, [m EXCEPT !.panic = TRUE])

\* K applied to the value of e: `let x = e; K(x)`, with e computed once
Then(e, K(_)) == CHOOSE v \in {K(x) : x \in {e}} : TRUE

\* The physical address a kernel pointer into the two pages used here refers
\* to: the page at LAST_PAGE_TABLE_VADDR is mapped to the last page table for
\* good, the last page to whatever frame its PTE (the last entry of the last
\* page table) holds.  -1: the access faults.
PhysOfPointer(m, vaddr) ==
    IF FrameOf(vaddr) = LAST_PAGE_TABLE_VADDR
    THEN LAST_PAGE_TABLE_PADDR + PageOffset(vaddr)
    ELSE IF FrameOf(vaddr) = WINDOW_VADDR
    THEN Then(m.mem[LAST_PAGE_TABLE_PADDR][ENTRIES - 1], LAMBDA pte :
             IF Present(pte) /\ FrameOf(pte) \in RamFrames
             THEN FrameOf(pte) + PageOffset(vaddr)
             ELSE 0 - 1)
    ELSE 0 - 1

\* *(vaddr as *const u32)
read_u32(m, vaddr) ==
    Then(PhysOfPointer(m, vaddr), LAMBDA pa :
        IF pa < 0 THEN Stop(m)
        ELSE Some(m.mem[FrameOf(pa)][PageOffset(pa) \div 4], m))

\* *(vaddr as *mut u32) = val
write_u32(m, vaddr, val) ==
    Then(PhysOfPointer(m, vaddr), LAMBDA pa :
        IF pa < 0 THEN Stop(m)
        ELSE Some(0, [m EXCEPT !.mem[FrameOf(pa)][PageOffset(pa) \div 4] = val]))

\* core::ptr::write_bytes(vaddr, 0, PAGE_SIZE) for a page-aligned pointer
zero_page(m, vaddr) ==
    Then(PhysOfPointer(m, vaddr), LAMBDA pa :
        IF pa < 0 THEN Stop(m)
        ELSE Some(0, [m EXCEPT !.mem[FrameOf(pa)] = ZeroFrame]))

\* ------------------------------------------------------------------------
\* shared/page_tables and kernel PhysicalMemory
\* ------------------------------------------------------------------------

\* PageDirectory::map_raw_directly
map_raw_directly(m, virt_addr, raw, update, page_table_vaddr) ==
    IF PageOffset(virt_addr) # 0 THEN None(m)
    ELSE IF page_table_vaddr + TableIndex(virt_addr) * 4 > U32_MAX THEN None(m)
    ELSE
    Then(page_table_vaddr + TableIndex(virt_addr) * 4, LAMBDA table_entry_vaddr :
    Then(read_u32(m, table_entry_vaddr), LAMBDA table_entry :
        IF ~table_entry.some THEN table_entry
        ELSE IF Present(table_entry.val) /\ ~update THEN None(m)
        ELSE write_u32(m, table_entry_vaddr, raw)))

\* translate_phys that records the new window without writing its PTE
translate_phys_without_pte(m, has_dir, phys_addr, size) ==
    IF size = 0 THEN None(m)
    ELSE IF phys_addr + (size - 1) > U32_MAX THEN None(m)
    ELSE IF phys_addr >= LAST_PAGE_TABLE_PADDR
            /\ phys_addr <= LAST_PAGE_TABLE_PADDR + (PAGE_SIZE - 1)
    THEN IF (phys_addr - LAST_PAGE_TABLE_PADDR) + (size - 1) > PAGE_SIZE - 1
         THEN None(m)
         ELSE Some(LAST_PAGE_TABLE_VADDR + (phys_addr - LAST_PAGE_TABLE_PADDR), m)
    ELSE IF m.current_phys_mapping = NoMapping
            \/ m.current_phys_mapping # FrameOf(phys_addr)
    THEN IF ~has_dir THEN None(m)
         ELSE IF phys_addr + (size - 1) > FrameOf(phys_addr) + (PAGE_SIZE - 1)
         THEN None(m)
         ELSE Some(WINDOW_VADDR + PageOffset(phys_addr),
                   [m EXCEPT !.current_phys_mapping = FrameOf(phys_addr)])
    ELSE Some(WINDOW_VADDR + PageOffset(phys_addr), m)

\* PhysicalMemory::translate_phys; has_dir: page_dir is Some.  phys_addr_page
\* is FrameOf(phys_addr), and phys_addr - phys_addr_page is PageOffset(phys_addr).
translate_phys(m, has_dir, phys_addr, size) ==
    IF size = 0 THEN None(m)
    ELSE IF phys_addr + (size - 1) > U32_MAX THEN None(m)
    ELSE IF phys_addr >= LAST_PAGE_TABLE_PADDR
            /\ phys_addr <= LAST_PAGE_TABLE_PADDR + (PAGE_SIZE - 1)
    THEN IF (phys_addr - LAST_PAGE_TABLE_PADDR) + (size - 1) > PAGE_SIZE - 1
         THEN None(m)
         ELSE Some(LAST_PAGE_TABLE_VADDR + (phys_addr - LAST_PAGE_TABLE_PADDR), m)
    ELSE IF m.current_phys_mapping = NoMapping
            \/ m.current_phys_mapping # FrameOf(phys_addr)
    THEN IF ~has_dir THEN None(m)
         ELSE IF phys_addr + (size - 1) > FrameOf(phys_addr) + (PAGE_SIZE - 1)
         THEN None(m)
         ELSE Then(map_raw_directly(m, WINDOW_VADDR,
                                    PAGE_ENTRY_PRESENT + PAGE_ENTRY_WRITE
                                        + FrameOf(phys_addr),
                                    TRUE, LAST_PAGE_TABLE_VADDR),
                   LAMBDA mapped :
                       Some(WINDOW_VADDR + PageOffset(phys_addr),
                            [mapped.m EXCEPT
                                 !.current_phys_mapping = FrameOf(phys_addr)]))
    ELSE Some(WINDOW_VADDR + PageOffset(phys_addr), m)

\* PhysicalMemory::allocate_phys_mem
allocate_phys_mem(m, size, align, checks) ==
    Then(allocate(m.memory_ranges, size, align, checks), LAMBDA a :
        IF a.panic THEN Stop(m)
        ELSE IF ~a.some THEN None(m)
        ELSE Some(a.addr, [m EXCEPT !.memory_ranges = a.ranges]))

\* PhysicalMemory::release_phys_mem
release_phys_mem(m, phys_addr, size) ==
    IF size = 0 THEN m
    ELSE Then(insert(m.memory_ranges,
                     InclusiveRange(phys_addr, saturating_add(phys_addr, size - 1))),
              LAMBDA r :
                  IF r.panic THEN [m EXCEPT !.panic = TRUE]
                  ELSE [m EXCEPT !.memory_ranges = r.ranges])

\* PhysMem::allocate_zeroed_phys_mem for a page
allocate_zeroed_phys_mem(m, has_dir, checks) ==
    Then(allocate_phys_mem(m, PAGE_SIZE, PAGE_SIZE, checks), LAMBDA phys_addr :
        IF ~phys_addr.some THEN phys_addr
        ELSE
        Then(translate_phys(phys_addr.m, has_dir, phys_addr.val, PAGE_SIZE),
             LAMBDA virt_addr :
                 IF ~virt_addr.some
                 THEN None(release_phys_mem(virt_addr.m, phys_addr.val, PAGE_SIZE))
                 ELSE Then(zero_page(virt_addr.m, virt_addr.val), LAMBDA z :
                          IF ~z.some THEN z ELSE Some(phys_addr.val, z.m))))

\* translate_phys(Some(self), paddr, 4) followed by a read through the pointer
read_phys(m, paddr) ==
    Then(translate_phys(m, TRUE, paddr, 4), LAMBDA vaddr :
        IF ~vaddr.some THEN vaddr ELSE read_u32(vaddr.m, vaddr.val))

\* translate_phys(Some(self), paddr, 4) followed by a write through the pointer
write_phys(m, paddr, val) ==
    Then(translate_phys(m, TRUE, paddr, 4), LAMBDA vaddr :
        IF ~vaddr.some THEN vaddr ELSE write_u32(vaddr.m, vaddr.val, val))

\* The part of PageDirectory::map_raw after the PDE is known
map_raw_entry(m, virt_addr, directory_entry, raw, update) ==
    Then(FrameOf(directory_entry) + TableIndex(virt_addr) * 4,
         LAMBDA table_entry_paddr :
    Then(read_phys(m, table_entry_paddr), LAMBDA table_entry :
        IF ~table_entry.some THEN table_entry
        ELSE IF Present(table_entry.val) /\ ~update THEN None(table_entry.m)
        ELSE write_phys(table_entry.m, table_entry_paddr, raw)))

\* The part of PageDirectory::map_raw that adds a page table
map_raw_create(m, virt_addr, directory_entry_paddr, raw, update, checks) ==
    Then(allocate_zeroed_phys_mem(m, TRUE, checks), LAMBDA new_table :
        IF ~new_table.some THEN new_table
        ELSE
        Then(new_table.val + PAGE_ENTRY_USER + PAGE_ENTRY_WRITE + PAGE_ENTRY_PRESENT,
             LAMBDA new_entry :
        Then(write_phys(new_table.m, directory_entry_paddr, new_entry), LAMBDA w :
            IF ~w.some THEN w
            ELSE map_raw_entry(w.m, virt_addr, new_entry, raw, update))))

\* PageDirectory::map_raw
map_raw(m, directory, virt_addr, raw, update, create, checks) ==
    IF PageOffset(virt_addr) # 0 THEN None(m)
    ELSE
    Then(directory + DirectoryIndex(virt_addr) * 4, LAMBDA directory_entry_paddr :
    Then(read_phys(m, directory_entry_paddr), LAMBDA directory_entry :
        IF ~directory_entry.some THEN directory_entry
        ELSE IF Present(directory_entry.val)
        THEN map_raw_entry(directory_entry.m, virt_addr, directory_entry.val, raw,
                           update)
        ELSE IF ~create THEN None(directory_entry.m)
        ELSE map_raw_create(directory_entry.m, virt_addr, directory_entry_paddr, raw,
                            update, checks)))

\* PageDirectory::map_to_phys_page
map_to_phys_page(m, directory, virt_addr, phys_addr, write, user, update, cacheable, checks) ==
    IF PageOffset(virt_addr) # 0 THEN None(m)
    ELSE IF PageOffset(phys_addr) # 0 THEN None(m)
    ELSE map_raw(m, directory, virt_addr,
                 phys_addr + PAGE_ENTRY_PRESENT
                     + (IF write THEN PAGE_ENTRY_WRITE ELSE 0)
                     + (IF user THEN PAGE_ENTRY_USER ELSE 0)
                     + (IF ~cacheable THEN PAGE_ENTRY_PWT + PAGE_ENTRY_PCD ELSE 0),
                 update, TRUE, checks)

\* The loop of PageDirectory::map_internal (without init) from page `page` on
RECURSIVE map_pages(_, _, _, _, _, _, _)
map_pages(m, directory, page, last_addr_page, write, user, checks) ==
    IF page > last_addr_page THEN Some(0, m)
    ELSE
    Then(allocate_phys_mem(m, PAGE_SIZE, PAGE_SIZE, checks), LAMBDA physical_page :
        IF ~physical_page.some THEN physical_page
        ELSE
        Then(map_to_phys_page(physical_page.m, directory, page * PAGE_SIZE,
                              physical_page.val, write, user, FALSE, TRUE, checks),
             LAMBDA mapped :
                 IF ~mapped.some THEN mapped
                 ELSE map_pages(mapped.m, directory, page + 1, last_addr_page, write,
                                user, checks)))

\* PageDirectory::map
map(m, directory, virt_addr, size, write, user, checks) ==
    IF size = 0 \/ PageOffset(virt_addr) # 0 THEN None(m)
    ELSE IF virt_addr + (size - 1) > U32_MAX THEN None(m)
    ELSE map_pages(m, directory, virt_addr \div PAGE_SIZE,
                   (virt_addr + (size - 1)) \div PAGE_SIZE, write, user, checks)

\* PageDirectory::translate_virt
translate_virt(m, directory, virt_addr) ==
    Then(read_phys(m, directory + DirectoryIndex(virt_addr) * 4),
         LAMBDA directory_entry :
        IF ~directory_entry.some THEN directory_entry
        ELSE IF ~Present(directory_entry.val) THEN None(directory_entry.m)
        ELSE
        Then(read_phys(directory_entry.m,
                       FrameOf(directory_entry.val) + TableIndex(virt_addr) * 4),
             LAMBDA table_entry :
                 IF ~table_entry.some THEN table_entry
                 ELSE IF Present(table_entry.val)
                 THEN Some(FrameOf(table_entry.val) + PageOffset(virt_addr),
                           table_entry.m)
                 ELSE None(table_entry.m)))

\* unmap_release that marks the PDE not present and leaves the page table's
\* frame allocated
unmap_release_keep_frame(m, directory_entry_paddr, table_paddr) ==
    write_phys(m, directory_entry_paddr, 0)

\* What PageDirectory::unmap does once no entry of the table is present
unmap_release(m, directory_entry_paddr, table_paddr) ==
    Then(release_phys_mem(m, table_paddr, PAGE_SIZE), LAMBDA released :
        IF released.panic THEN Stop(released)
        ELSE write_phys(released, directory_entry_paddr, 0))

\* The loop of PageDirectory::unmap over the entries of the page table
RECURSIVE unmap_scan(_, _, _, _)
unmap_scan(m, directory_entry_paddr, table_paddr, table_index) ==
    IF table_index >= ENTRIES
    THEN unmap_release(m, directory_entry_paddr, table_paddr)
    ELSE
    Then(read_phys(m, table_paddr + table_index * 4), LAMBDA table_entry :
        IF ~table_entry.some THEN table_entry
        ELSE IF Present(table_entry.val) THEN Some(0, table_entry.m)
        ELSE unmap_scan(table_entry.m, directory_entry_paddr, table_paddr,
                        table_index + 1))

\* The part of PageDirectory::unmap after the physical page has been freed
unmap_entry(m, directory, virt_addr, checks) ==
    Then(map_raw(m, directory, virt_addr, 0, TRUE, FALSE, checks), LAMBDA cleared :
        IF ~cleared.some THEN cleared
        ELSE
        Then(directory + DirectoryIndex(virt_addr) * 4, LAMBDA directory_entry_paddr :
        Then(read_phys(cleared.m, directory_entry_paddr), LAMBDA directory_entry :
            IF ~directory_entry.some THEN directory_entry
            ELSE unmap_scan(directory_entry.m, directory_entry_paddr,
                            FrameOf(directory_entry.val), 0))))

\* The part of PageDirectory::unmap that frees the physical page first
unmap_free_page(m, directory, virt_addr, checks) ==
    Then(translate_virt(m, directory, virt_addr), LAMBDA page_paddr :
        IF ~page_paddr.some THEN page_paddr
        ELSE
        Then(release_phys_mem(page_paddr.m, page_paddr.val, PAGE_SIZE),
             LAMBDA released :
                 IF released.panic THEN Stop(released)
                 ELSE unmap_entry(released, directory, virt_addr, checks)))

\* PageDirectory::unmap
unmap(m, directory, virt_addr, free_page, checks) ==
    IF PageOffset(virt_addr) # 0 THEN None(m)
    ELSE IF free_page THEN unmap_free_page(m, directory, virt_addr, checks)
    ELSE unmap_entry(m, directory, virt_addr, checks)

\* PageDirectory::new
new(m, checks) == allocate_zeroed_phys_mem(m, FALSE, checks)

\* ------------------------------------------------------------------------
\* The kernel heap: GlobalAllocator and its list of free pages
\* ------------------------------------------------------------------------

\* 0xC4000000, the start of the page table 49/64 of the way up the address
\* space, and the 0x200000 bytes (half a page table's range) above it
KERNEL_ALLOCATIONS_BASE_VADDR == ((49 * ENTRIES) \div 64) * ENTRIES * PAGE_SIZE

HEAP_SIZE == (ENTRIES \div 2) * PAGE_SIZE

\* The page addresses alloc_internal maps: those of the heap's window, and the
\* lowest pages of the address space, which NEXT_AVAILABLE_VADDR reaches once
\* it has wrapped
HeapAddrs ==
    {KERNEL_ALLOCATIONS_BASE_VADDR + k * PAGE_SIZE : k \in 0..(ENTRIES \div 2 - 1)}
        \cup {k * PAGE_SIZE : k \in 0..NumFreeFrames}

\* Option::None of a *mut FreePagesEntry
NoEntry == 0 - 1

FreePagesEntry(page_count, next) == [page_count |-> page_count, next |-> next]

\* (layout.size() + 4095) & !0xFFF
AlignedSize(size) == ((size + (PAGE_SIZE - 1)) \div PAGE_SIZE) * PAGE_SIZE

\* assert!(layout.align() <= 4096) holds
align_accepted_always(align) == TRUE

align_accepted(align) == align <= PAGE_SIZE

\* NEXT_AVAILABLE_VADDR after fetch_add(aligned_size): the atomic add wraps
fetch_add(vaddr, aligned_size) == (vaddr + aligned_size) % (U32_MAX + 1)

\* virt_addr.checked_add(aligned_size - 1)? >= KERNEL_ALLOCATIONS_BASE_VADDR +
\* 0x200000, or the checked_add is None: alloc_internal returns None
no_room(virt_addr, aligned_size) ==
    \/ virt_addr + (aligned_size - 1) > U32_MAX
    \/ virt_addr + (aligned_size - 1) >= KERNEL_ALLOCATIONS_BASE_VADDR + HEAP_SIZE

\* The heap as the allocator sees it: the entries stored at the heap's page
\* addresses and FREE_PAGES_LIST.  hang: a loop over the list does not end.
Heap(heap_mem, head, hang) == [heap_mem |-> heap_mem, head |-> head, hang |-> hang]

\* `last.next = free_pages.next` for Some(last_entry), else the list head is
\* set to free_pages.next
Unlink(h, last_entry, next) ==
    IF last_entry # NoEntry
    THEN [h EXCEPT !.heap_mem[last_entry].next = next]
    ELSE [h EXCEPT !.head = next]

\* The loop of alloc_from_free_list from `entry` on; fuel: the iterations a
\* list without a cycle can take at most
RECURSIVE alloc_scan(_, _, _, _, _)
alloc_scan(h, num_pages_needed, entry, last_entry, fuel) ==
    IF fuel = 0 THEN [some |-> FALSE, ptr |-> 0, h |-> [h EXCEPT !.hang = TRUE]]
    ELSE
    Then(h.heap_mem[entry], LAMBDA free_pages :
        IF num_pages_needed <= free_pages.page_count
        THEN IF num_pages_needed < free_pages.page_count
             THEN Then(free_pages.page_count - num_pages_needed,
                       LAMBDA new_page_count :
                           [some |-> TRUE,
                            ptr |-> entry + new_page_count * PAGE_SIZE,
                            h |-> [h EXCEPT !.heap_mem[entry] =
                                       FreePagesEntry(new_page_count, free_pages.next)]])
             ELSE [some |-> TRUE, ptr |-> entry,
                   h |-> Unlink(h, last_entry, free_pages.next)]
        ELSE IF free_pages.next # NoEntry
        THEN alloc_scan(h, num_pages_needed, free_pages.next, entry, fuel - 1)
        ELSE [some |-> FALSE, ptr |-> 0, h |-> h])

\* GlobalAllocator::alloc_from_free_list
alloc_from_free_list(h, aligned_size) ==
    IF h.head # NoEntry
    THEN alloc_scan(h, aligned_size \div PAGE_SIZE, h.head, NoEntry, ENTRIES)
    ELSE [some |-> FALSE, ptr |-> 0, h |-> h]

\* The loop of dealloc_internal from `entry` on: an entry the freed pages end
\* at or begin after is taken out of the list and added to new_entry
RECURSIVE dealloc_scan(_, _, _, _, _, _, _, _)
dealloc_scan(h, ptr, aligned_size, new_entry, new_entry_ptr, entry, last_entry, fuel) ==
    IF fuel = 0
    THEN [h |-> [h EXCEPT !.hang = TRUE], new_entry |-> new_entry,
          new_entry_ptr |-> new_entry_ptr]
    ELSE
    Then(h.heap_mem[entry], LAMBDA free_pages :
    Then(IF ptr + aligned_size = entry
         THEN [h |-> Unlink(h, last_entry, free_pages.next),
               new_entry |-> [new_entry EXCEPT
                                  !.page_count = @ + free_pages.page_count],
               new_entry_ptr |-> new_entry_ptr]
         ELSE IF ptr = entry + free_pages.page_count * PAGE_SIZE
         THEN [h |-> Unlink(h, last_entry, free_pages.next),
               new_entry |-> [new_entry EXCEPT
                                  !.page_count = @ + free_pages.page_count],
               new_entry_ptr |-> entry]
         ELSE [h |-> h, new_entry |-> new_entry, new_entry_ptr |-> new_entry_ptr],
         LAMBDA merged :
             IF free_pages.next # NoEntry
             THEN dealloc_scan(merged.h, ptr, aligned_size, merged.new_entry,
                               merged.new_entry_ptr, free_pages.next, entry, fuel - 1)
             ELSE merged))

\* GlobalAllocator::dealloc_internal for layout.size() > 0: the heap after it
dealloc_internal(h, ptr, size) ==
    Then(IF h.head # NoEntry
         THEN dealloc_scan(h, ptr, AlignedSize(size),
                           FreePagesEntry(AlignedSize(size) \div PAGE_SIZE, h.head),
                           ptr, h.head, NoEntry, ENTRIES)
         ELSE [h |-> h,
               new_entry |-> FreePagesEntry(AlignedSize(size) \div PAGE_SIZE, h.head),
               new_entry_ptr |-> ptr],
         LAMBDA scanned :
             IF scanned.h.hang THEN scanned.h
             ELSE [scanned.h EXCEPT !.heap_mem[scanned.new_entry_ptr] = scanned.new_entry,
                                    !.head = scanned.new_entry_ptr])

\* ------------------------------------------------------------------------
\* kernel/process.rs
\* ------------------------------------------------------------------------

KERNEL_INTR_STACK_SIZE == PAGE_SIZE

\* 0x0FFFF000: the last page of a page table of the user half
USER_STACK_VADDR == ENTRIES * PAGE_SIZE + (ENTRIES - 1) * PAGE_SIZE

USER_STACK_SIZE == PAGE_SIZE

\* 0xFFFF9000 (syscall_fork), the seventh page from the top
KERNEL_INTR_STACK_VADDR == (U32_MAX + 1) - 7 * PAGE_SIZE

\* 0xFFFFB000, the fifth page from the top: the interrupt stack of the first
\* process
INIT_INTR_STACK_VADDR == (U32_MAX + 1) - 5 * PAGE_SIZE

\* The first PDE of the upper quarter of a directory (byte 3072 of 4096)
KERNEL_HALF == (3 * ENTRIES) \div 4

ROOT_INODE == 2

NUM_VM_RANGES == 16

NUM_FILE_DESCRIPTORS == 16

NoFd == 0 - 1

NoExit == 0 - 1

\* Option<(VirtAddr, u32, bool, bool)> of Process.virtual_memory_ranges
VmRange(some, first_page_vaddr, num_pages, write, exec) ==
    [some |-> some, first_page_vaddr |-> first_page_vaddr, num_pages |-> num_pages,
     write |-> write, exec |-> exec]

NoVmRange == VmRange(FALSE, 0, 0, FALSE, FALSE)

\* struct Process; registers is kept as its eax, eflags never changes
Process(page_directory, virtual_memory_ranges, kernel_intr_stack, file_descriptors, cwd_inode, eax, eip, in_kernel, exit_code) ==
    [present |-> TRUE, page_directory |-> page_directory,
     virtual_memory_ranges |-> virtual_memory_ranges,
     kernel_intr_stack |-> kernel_intr_stack, file_descriptors |-> file_descriptors,
     cwd_inode |-> cwd_inode, eax |-> eax, eip |-> eip, in_kernel |-> in_kernel,
     exit_code |-> exit_code]

\* None of SchedulerState.processes
NoProcess ==
    [Process(0, [i \in 0..(NUM_VM_RANGES - 1) |-> NoVmRange], 0,
             [i \in 0..(NUM_FILE_DESCRIPTORS - 1) |-> NoFd], 0, 0, 0, FALSE, NoExit)
        EXCEPT !.present = FALSE]

\* Option::unwrap of a call's result
unwrap(r) == IF r.some \/ r.m.panic THEN r ELSE Stop(r.m)

\* The physical address the MMU gives a pointer below the kernel half under
\* the page directory cr3.  -1: page fault.
PhysOfUserPointer(m, cr3, vaddr) ==
    Then(m.mem[cr3][DirectoryIndex(vaddr)], LAMBDA pde :
        IF ~Present(pde) \/ FrameOf(pde) \notin RamFrames THEN 0 - 1
        ELSE Then(m.mem[FrameOf(pde)][TableIndex(vaddr)], LAMBDA pte :
                 IF ~Present(pte) \/ FrameOf(pte) \notin RamFrames THEN 0 - 1
                 ELSE FrameOf(pte) + PageOffset(vaddr)))

\* phys_mem.translate_phys(phys_addr, size) as process.rs calls it: the
\* window is moved whenever it has to be
translate_phys_page(m, phys_addr) == translate_phys(m, TRUE, phys_addr, PAGE_SIZE)

\* PageDirectory::new(phys_mem) as process.rs calls it
new_page_directory(m, checks) == allocate_zeroed_phys_mem(m, TRUE, checks)

\* copy_from_slice of a whole page through a kernel pointer
write_page(m, vaddr, content) ==
    Then(PhysOfPointer(m, vaddr), LAMBDA pa :
        IF pa < 0 THEN Stop(m)
        ELSE Some(0, [m EXCEPT !.mem[FrameOf(pa)] = content]))

\* (&mut new_pd[3072..]).copy_from_slice(&pd_buffer[..])
write_kernel_half(m, vaddr, pd_buffer) ==
    Then(PhysOfPointer(m, vaddr), LAMBDA pa :
        IF pa < 0 THEN Stop(m)
        ELSE Some(0, [m EXCEPT !.mem[FrameOf(pa)] =
                         [i \in 0..(ENTRIES - 1) |->
                             IF i >= KERNEL_HALF THEN pd_buffer[i] ELSE @[i]]]))

\* PageDirectory::map_init for one page (size = 4096): map_internal with init,
\* whose bytes are `content`
map_init(m, directory, virt_addr, content, write, user, checks) ==
    IF PageOffset(virt_addr) # 0 THEN None(m)
    ELSE
    Then(allocate_phys_mem(m, PAGE_SIZE, PAGE_SIZE, checks), LAMBDA physical_page :
        IF ~physical_page.some THEN physical_page
        ELSE
        Then(translate_phys_page(physical_page.m, physical_page.val), LAMBDA page_ptr :
            IF ~page_ptr.some THEN page_ptr
            ELSE
            Then(write_page(page_ptr.m, page_ptr.val, content), LAMBDA w :
                IF ~w.some THEN w
                ELSE map_to_phys_page(w.m, directory, virt_addr, physical_page.val,
                                      write, user, FALSE, TRUE, checks))))

\* The end of Process::new: the stack is unmapped (result dropped) and mapped
new_kernel_stack(m, proc_page_dir, kernel_intr_stack, checks) ==
    Then(unmap(m, proc_page_dir, kernel_intr_stack, TRUE, checks), LAMBDA unmapped :
        IF unmapped.m.panic THEN Stop(unmapped.m)
        ELSE
        Then(unwrap(map(unmapped.m, proc_page_dir, kernel_intr_stack,
                        KERNEL_INTR_STACK_SIZE, TRUE, FALSE, checks)),
             LAMBDA mapped :
                 IF ~mapped.some THEN mapped ELSE Some(proc_page_dir, mapped.m)))

\* Process::new up to the struct: the new page directory, with the kernel
\* half of cur_page_dir and the process's interrupt stack
Process_new(m, cur_page_dir, kernel_intr_stack, checks) ==
    Then(unwrap(translate_phys_page(m, cur_page_dir)), LAMBDA cur_pd :
        IF ~cur_pd.some THEN cur_pd
        ELSE
        Then(PhysOfPointer(cur_pd.m, cur_pd.val), LAMBDA cur_pd_paddr :
        IF cur_pd_paddr < 0 THEN Stop(cur_pd.m)
        ELSE
        Then(cur_pd.m.mem[FrameOf(cur_pd_paddr)], LAMBDA pd_buffer :
        Then(unwrap(new_page_directory(cur_pd.m, checks)), LAMBDA proc_page_dir :
            IF ~proc_page_dir.some THEN proc_page_dir
            ELSE
            Then(unwrap(translate_phys_page(proc_page_dir.m, proc_page_dir.val)),
                 LAMBDA new_pd :
                IF ~new_pd.some THEN new_pd
                ELSE
                Then(write_kernel_half(new_pd.m, new_pd.val, pd_buffer), LAMBDA w :
                    IF ~w.some THEN w
                    ELSE new_kernel_stack(w.m, proc_page_dir.val, kernel_intr_stack,
                                          checks)))))))

\* The pages of one virtual memory range, in the order of `for page in 0..num_pages`
RangePages(range) ==
    IF ~range.some THEN <<>>
    ELSE [k \in 1..range.num_pages |->
             [vaddr |-> range.first_page_vaddr + (k - 1) * PAGE_SIZE,
              write |-> range.write]]

\* The pages of virtual_memory_ranges[i..], in the order of the loops over them
RECURSIVE RangesPages(_, _)
RangesPages(virtual_memory_ranges, i) ==
    IF i >= NUM_VM_RANGES THEN <<>>
    ELSE RangePages(virtual_memory_ranges[i]) \o RangesPages(virtual_memory_ranges, i + 1)

\* The loop of Process::new_from_fork from page i on: each page is read
\* through the address space of cr3 and mapped, initialised, in the child
RECURSIVE fork_pages(_, _, _, _, _, _)
fork_pages(m, cr3, child_dir, pages, i, checks) ==
    IF i > Len(pages) THEN Some(0, m)
    ELSE
    Then(PhysOfUserPointer(m, cr3, pages[i].vaddr), LAMBDA page_paddr :
        IF page_paddr < 0 THEN Stop(m)
        ELSE
        Then(unwrap(map_init(m, child_dir, pages[i].vaddr, m.mem[FrameOf(page_paddr)],
                             pages[i].write, TRUE, checks)),
             LAMBDA mapped :
                 IF ~mapped.some THEN mapped
                 ELSE fork_pages(mapped.m, cr3, child_dir, pages, i + 1, checks)))

\* Process::new_from_fork; val is the child
new_from_fork(m, cr3, cur_page_dir, kernel_intr_stack, parent, checks) ==
    Then(Process_new(m, cur_page_dir, kernel_intr_stack, checks), LAMBDA proc :
        IF ~proc.some THEN proc
        ELSE
        Then(fork_pages(proc.m, cr3, proc.val,
                        RangesPages(parent.virtual_memory_ranges, 0), 1, checks),
             LAMBDA copied :
                 IF ~copied.some THEN copied
                 ELSE Some(Process(proc.val, parent.virtual_memory_ranges,
                                   kernel_intr_stack, parent.file_descriptors,
                                   parent.cwd_inode, 0, parent.eip, FALSE, NoExit),
                           copied.m)))

\* The loops of Process::unmap_user_virtual_memory from page i on
RECURSIVE unmap_pages(_, _, _, _, _)
unmap_pages(m, page_directory, pages, i, checks) ==
    IF i > Len(pages) THEN Some(0, m)
    ELSE
    Then(unwrap(unmap(m, page_directory, pages[i].vaddr, TRUE, checks)),
         LAMBDA unmapped :
             IF ~unmapped.some THEN unmapped
             ELSE unmap_pages(unmapped.m, page_directory, pages, i + 1, checks))

\* Process::unmap_user_virtual_memory; val is the process after it
unmap_user_virtual_memory(m, proc, checks) ==
    Then(unmap_pages(m, proc.page_directory,
                     RangesPages(proc.virtual_memory_ranges, 0), 1, checks),
         LAMBDA unmapped :
             IF ~unmapped.some THEN unmapped
             ELSE Some([proc EXCEPT !.virtual_memory_ranges =
                                        [i \in 0..(NUM_VM_RANGES - 1) |-> NoVmRange]],
                       unmapped.m))

\* Process::close_file_descriptor: the table after it
close_file_descriptor(file_descriptors, fd) ==
    IF fd >= NUM_FILE_DESCRIPTORS THEN file_descriptors
    ELSE IF file_descriptors[fd] = NoFd THEN file_descriptors
    ELSE [file_descriptors EXCEPT ![fd] = NoFd]

\* The loop `for fd in 0..self.file_descriptors.len()` of Process::exit
RECURSIVE close_all(_, _)
close_all(file_descriptors, fd) ==
    IF fd >= NUM_FILE_DESCRIPTORS THEN file_descriptors
    ELSE close_all(close_file_descriptor(file_descriptors, fd), fd + 1)

\* Process::is_zombie
is_zombie(proc) == proc.exit_code # NoExit

\* Process::exit that leaves the user pages mapped
exit_keep_memory(m, proc, exit_code, checks) ==
    IF is_zombie(proc) THEN Stop(m)
    ELSE Some([proc EXCEPT !.exit_code = exit_code,
                           !.file_descriptors = close_all(@, 0)], m)

\* Process::exit; val is the process after it
exit(m, proc, exit_code, checks) ==
    IF is_zombie(proc) THEN Stop(m)
    ELSE unmap_user_virtual_memory(
             m,
             [proc EXCEPT !.exit_code = exit_code,
                          !.file_descriptors = close_all(@, 0)],
             checks)

\* ------------------------------------------------------------------------
\* State
\* ------------------------------------------------------------------------

VARIABLES
    ranges,           \* RangeSet.ranges[..num_ranges]
    last_op,          \* the last RangeSet call: its arguments, the set before it, its result
    num_allocs,       \* how many allocate calls have been made
    overflow_checks,  \* the build: are arithmetic overflow checks compiled in
    halted,           \* a panic has stopped the machine
    memory_ranges,    \* PhysicalMemory.memory_ranges: the free physical ranges
    current_phys_mapping, \* PhysicalMemory.current_phys_mapping, NoMapping for None
    mem,              \* the words of the physical frames
    directory,        \* PageDirectory.directory of the directory in use
    last_call,        \* the last paging call: its arguments, what it saw, its result
    prev_call,        \* the call before it when that was a map, else NoCall
    returned_phys,    \* every p that translate_virt(v) returned right after a
                      \* successful map(v, 4096, ..)
    aliases,          \* <<v, p>>: map_to_phys_page(v, p, .., true, true) succeeded and
                      \* v has not been mapped or unmapped since
    num_calls,        \* how many paging calls have been made
    next_available_vaddr, \* NEXT_AVAILABLE_VADDR
    free_pages_list,  \* FREE_PAGES_LIST, NoEntry for None
    heap_mem,         \* the FreePagesEntry stored at each page address of the heap
    allocations,      \* <<ptr, size>> of the allocations alloc returned and dealloc
                      \* has not been given back
    heap_call,        \* the last heap call: its arguments, the list head before it,
                      \* its result
    heap_prev,        \* the heap call before it
    processes,        \* SchedulerState.processes[0..2]
    current_process,  \* SchedulerState.current_process
    cpu,              \* the context the CPU runs: how and where it was entered
    suspended,        \* the slots whose process is inside yield_execution
    file_descriptions, \* FileDescriptionTable.descriptions up to the first None
    sys_call,         \* the last system call: its arguments, what it saw, its result
    num_sys_calls,    \* how many system calls have been made
    image,            \* the ext2 image the parser was given
    ext_call,         \* the last call of the ext2 parser: its arguments and result
    interrupt_flag,   \* EFLAGS.IF
    lock_cells,       \* available_ticket and owner_ticket of each LockCell
    guards,           \* the LockCellGuards that have not been dropped
    cells,            \* in_use and the value of each ExclusiveCell
    sync_call,        \* the last call on a LockCell or an ExclusiveCell
    idt,              \* the IDT
    in_service,       \* the IS registers of the two PICs, IRQ by IRQ
    int_call,         \* the last interrupt: its vector, what the handler did
    user_stack,       \* the user stack page and esp of the process that called execve
    threads,          \* where each caller of a shared cell or queue is in its code
    queue             \* the fields of the ProducerConsumer

rsVars == <<ranges, last_op, num_allocs>>

pgVars == <<memory_ranges, current_phys_mapping, mem, directory, last_call, prev_call,
            returned_phys, aliases, num_calls>>

hpVars == <<next_available_vaddr, free_pages_list, heap_mem, allocations, heap_call,
            heap_prev>>

prVars == <<processes, current_process, cpu, suspended, file_descriptions, sys_call,
            num_sys_calls>>

conVars == <<user_stack, threads, queue>>

libVars == <<image, ext_call, interrupt_flag, lock_cells, guards, cells, sync_call, idt,
             in_service, int_call, conVars>>

\* No execve was made, and nothing runs on a shared cell or queue
ConIdle ==
    /\ user_stack = [kind |-> "none"]
    /\ threads = <<>>
    /\ queue = [kind |-> "none"]

vars == <<rsVars, pgVars, hpVars, prVars, libVars, overflow_checks, halted>>

\* The state of the libraries in a specification that does not use them
LibIdle ==
    /\ ConIdle
    /\ image = "none"
    /\ ext_call = [kind |-> "none"]
    /\ interrupt_flag = FALSE
    /\ lock_cells = <<>>
    /\ guards = {}
    /\ cells = <<>>
    /\ sync_call = [kind |-> "none"]
    /\ idt = <<>>
    /\ in_service = {}
    /\ int_call = [kind |-> "none"]

\* ------------------------------------------------------------------------
\* RangeSet: bounds and inputs
\* ------------------------------------------------------------------------

\* range bounds are drawn from 0..MaxLow and from the top MaxHigh + 1 addresses
MaxLow == 2

MaxHigh == 0

\* allocate is called with size in 0..MaxSize and align in 0..MaxAlign, at most
\* MaxAllocs times
MaxSize == 2

MaxAlign == 4

MaxAllocs == 1

Points == (0..MaxLow) \cup ((U32_MAX - MaxHigh)..U32_MAX)

NoRange == InclusiveRange(0, 0)

\* last_op of a call other than allocate keeps only what the call was
OpRecord(kind, range, size, align, pre, some, addr) ==
    [kind |-> kind, range |-> range, size |-> size, align |-> align,
     pre |-> pre, some |-> some, addr |-> addr]

NoOp == OpRecord("new", NoRange, 0, 0, <<>>, FALSE, 0)

HeapCall(kind, ptr, size, align, ok, from_list, pre_head, pre_vaddr) ==
    [kind |-> kind, ptr |-> ptr, size |-> size, align |-> align, ok |-> ok,
     from_list |-> from_list, pre_head |-> pre_head, pre_vaddr |-> pre_vaddr]

NoHeapCall == HeapCall("none", 0, 0, 0, FALSE, FALSE, NoEntry, 0)

\* The heap before its first call: nothing allocated, no free pages, no entry
\* written
HeapStart ==
    /\ next_available_vaddr = KERNEL_ALLOCATIONS_BASE_VADDR
    /\ free_pages_list = NoEntry
    /\ heap_mem = [a \in HeapAddrs |-> FreePagesEntry(0, NoEntry)]
    /\ allocations = {}
    /\ heap_call = NoHeapCall
    /\ heap_prev = NoHeapCall

\* What the CPU runs: the slot of the process, the path it was entered by
\* ("ring0", "ring3"), the eip and cr3 it was entered with, whether it is in
\* user code or right behind the asm block of yield_execution, and whether the
\* entry faulted
Cpu(pid, via, eip, cr3, pc, fault) ==
    [pid |-> pid, via |-> via, eip |-> eip, cr3 |-> cr3, pc |-> pc, fault |-> fault]

NoCpu == Cpu(0, "none", 0, 0, "none", FALSE)

\* A system call: the slot that was current, the argument, whether it came
\* back, the process it worked on and the free ranges as they were before, the
\* user pages it had to deal with (vaddr, frame and content before the call),
\* and whether a switch to another context ended it
SysCall(kind, pid, arg, ok, ret, pre, pre_ranges, pages, switched) ==
    [kind |-> kind, pid |-> pid, arg |-> arg, ok |-> ok, ret |-> ret, pre |-> pre,
     pre_ranges |-> pre_ranges, pages |-> pages, switched |-> switched]

NoSysCall == SysCall("none", 0, 0, FALSE, 0, NoProcess, <<>>, <<>>, FALSE)

\* The process state of a specification that runs no process
ProcIdle ==
    /\ processes = [p \in 0..1 |-> NoProcess]
    /\ current_process = 0
    /\ cpu = NoCpu
    /\ suspended = {}
    /\ file_descriptions = <<>>
    /\ sys_call = NoSysCall
    /\ num_sys_calls = 0

\* The paging state of a specification that is about the RangeSet alone
PagingIdle ==
    /\ memory_ranges = <<>>
    /\ current_phys_mapping = NoMapping
    /\ mem = <<>>
    /\ directory = 0
    /\ last_call = <<>>
    /\ prev_call = <<>>
    /\ returned_phys = {}
    /\ aliases = {}
    /\ num_calls = 0
    /\ HeapStart
    /\ LibIdle
    /\ ProcIdle

\* RangeSet::new, in either build
Init ==
    /\ ranges = <<>>
    /\ last_op = NoOp
    /\ num_allocs = 0
    /\ overflow_checks \in BOOLEAN
    /\ halted = FALSE
    /\ PagingIdle

Panic ==
    /\ halted' = TRUE
    /\ UNCHANGED <<libVars, prVars, rsVars, pgVars, hpVars, overflow_checks>>

\* set.insert(InclusiveRange { start: s, end: e })
Insert ==
    /\ ~halted
    /\ \E s \in Points, e \in Points :
         LET r == insert(ranges, InclusiveRange(s, e))
         IN  IF r.panic THEN Panic
             ELSE /\ ranges' = r.ranges
                  /\ last_op' = OpRecord("insert", NoRange, 0, 0, <<>>, FALSE, 0)
                  /\ UNCHANGED <<libVars, prVars, num_allocs, overflow_checks, halted, pgVars, hpVars>>

\* set.remove(InclusiveRange { start: s, end: e })
Remove ==
    /\ ~halted
    /\ \E s \in Points, e \in Points :
         LET r == remove(ranges, InclusiveRange(s, e))
         IN  IF r.panic THEN Panic
             ELSE /\ ranges' = r.ranges
                  /\ last_op' = OpRecord("remove", NoRange, 0, 0, <<>>, FALSE, 0)
                  /\ UNCHANGED <<libVars, prVars, num_allocs, overflow_checks, halted, pgVars, hpVars>>

\* set.allocate(size, align)
Allocate ==
    /\ ~halted
    /\ num_allocs < MaxAllocs
    /\ \E size \in 0..MaxSize, align \in 0..MaxAlign :
         LET r == allocate(ranges, size, align, overflow_checks)
         IN  IF r.panic THEN Panic
             ELSE /\ ranges' = r.ranges
                  /\ last_op' = OpRecord("allocate", NoRange, size, align, ranges,
                                         r.some, r.addr)
                  /\ num_allocs' = num_allocs + 1
                  /\ UNCHANGED <<libVars, prVars, overflow_checks, halted, pgVars, hpVars>>

Next == Insert \/ Remove \/ Allocate

Spec == Init /\ [][Next]_vars

\* ------------------------------------------------------------------------
\* RangeSet pack/split scenario: inserts and removes of a fixed family of ranges
\* ------------------------------------------------------------------------

PackRanges ==
    {InclusiveRange(0, 99), InclusiveRange(200, 299), InclusiveRange(100, 199),
     InclusiveRange(50, 149), InclusiveRange(0, 0), InclusiveRange(300, U32_MAX),
     InclusiveRange(U32_MAX, U32_MAX), InclusiveRange(0, U32_MAX)}

PackInit ==
    /\ ranges = <<>>
    /\ last_op = NoOp
    /\ num_allocs = 0
    /\ overflow_checks = FALSE
    /\ halted = FALSE
    /\ PagingIdle

\* set.insert(range); last_op keeps the range and the set before the call
PackInsert ==
    /\ ~halted
    /\ \E range \in PackRanges :
         LET r == insert(ranges, range)
         IN  IF r.panic THEN Panic
             ELSE /\ ranges' = r.ranges
                  /\ last_op' = OpRecord("insert", range, 0, 0, ranges, FALSE, 0)
                  /\ UNCHANGED <<libVars, prVars, num_allocs, overflow_checks, halted, pgVars, hpVars>>

\* set.remove(range)
PackRemove ==
    /\ ~halted
    /\ \E range \in PackRanges :
         LET r == remove(ranges, range)
         IN  IF r.panic THEN Panic
             ELSE /\ ranges' = r.ranges
                  /\ last_op' = OpRecord("remove", range, 0, 0, ranges, FALSE, 0)
                  /\ UNCHANGED <<libVars, prVars, num_allocs, overflow_checks, halted, pgVars, hpVars>>

PackNext == PackInsert \/ PackRemove

PackSpec == PackInit /\ [][PackNext]_vars

\* ------------------------------------------------------------------------
\* RangeSet: properties
\* ------------------------------------------------------------------------

\* C1: no two distinct stored ranges overlap or are contiguous: for every pair
\* a, b of stored ranges, a.end + 1 < b.start or b.end + 1 < a.start.
C1_NoOverlapNoContiguous ==
    \A i \in 1..Len(ranges), j \in 1..Len(ranges) :
        i # j => \/ ranges[i].end + 1 < ranges[j].start
                 \/ ranges[j].end + 1 < ranges[i].start

C1_Witness ==
    /\ last_op.kind \in {"insert", "remove"}
    /\ Len(ranges) >= 3

\* C2: if allocate(size, align) returns p, then p % align = 0 and [p, p+size-1]
\* lies inside one range stored immediately before the call.
C2_AllocatedFromOneRange ==
    (last_op.kind = "allocate" /\ last_op.some) =>
        /\ last_op.addr % last_op.align = 0
        /\ \E i \in 1..Len(last_op.pre) :
              /\ last_op.pre[i].start <= last_op.addr
              /\ last_op.addr + last_op.size - 1 <= last_op.pre[i].end

\* address x lies in one of the ranges rs
CoveredBy(rs, x) == \E i \in 1..Len(rs) : rs[i].start <= x /\ x <= rs[i].end

Ends(rs) == {rs[i].start : i \in 1..Len(rs)} \cup {rs[i].end : i \in 1..Len(rs)}

\* Every bound of the ranges involved in a call, 0 and U32_MAX, and their
\* neighbours.  Two unions of ranges with bounds among these that agree on
\* these addresses agree on every address: between two neighbouring bounds no
\* range begins or ends.
CritPoints(pre, post, range) ==
    LET E == Ends(pre) \cup Ends(post) \cup {range.start, range.end, 0, U32_MAX}
    IN  {x \in E \cup {e + 1 : e \in E} \cup {e - 1 : e \in E} : 0 <= x /\ x <= U32_MAX}

SetOf(rs) == {rs[i] : i \in 1..Len(rs)}

\* C3: the stored ranges cover exactly the addresses a mathematical set would
\* hold: after insert(r) the addresses covered before united with r, after
\* remove(r) those covered before minus r; from empty, insert [0,99],
\* insert [200,299], insert [100,199] leaves the single range [0,299] and
\* remove [50,149] then leaves exactly [0,49] and [150,299].
C3_SetOfAddresses ==
    /\ last_op.kind = "insert" =>
          \A x \in CritPoints(last_op.pre, ranges, last_op.range) :
              CoveredBy(ranges, x) <=>
                  (CoveredBy(last_op.pre, x)
                      \/ (last_op.range.start <= x /\ x <= last_op.range.end))
    /\ last_op.kind = "remove" =>
          \A x \in CritPoints(last_op.pre, ranges, last_op.range) :
              CoveredBy(ranges, x) <=>
                  (CoveredBy(last_op.pre, x)
                      /\ ~(last_op.range.start <= x /\ x <= last_op.range.end))
    /\ (last_op.kind = "insert" /\ last_op.range = InclusiveRange(0, 99)
            /\ last_op.pre = <<>>)
          => ranges = <<InclusiveRange(0, 99)>>
    /\ (last_op.kind = "insert" /\ last_op.range = InclusiveRange(200, 299)
            /\ last_op.pre = <<InclusiveRange(0, 99)>>)
          => ranges = <<InclusiveRange(0, 99), InclusiveRange(200, 299)>>
    /\ (last_op.kind = "insert" /\ last_op.range = InclusiveRange(100, 199)
            /\ last_op.pre = <<InclusiveRange(0, 99), InclusiveRange(200, 299)>>)
          => ranges = <<InclusiveRange(0, 299)>>
    /\ (last_op.kind = "remove" /\ last_op.range = InclusiveRange(50, 149)
            /\ last_op.pre = <<InclusiveRange(0, 299)>>)
          => /\ Len(ranges) = 2
             /\ SetOf(ranges) = {InclusiveRange(0, 49), InclusiveRange(150, 299)}

C3_Witness ==
    /\ last_op.kind = "remove"
    /\ last_op.range = InclusiveRange(50, 149)
    /\ last_op.pre = <<InclusiveRange(0, 299)>>

\* round_up(start, align) over the integers
RoundUp(v, align) == ((v + align - 1) \div align) * align

Fits(r, size, align) == RoundUp(r.start, align) + size - 1 <= r.end

Padding(r, align) == RoundUp(r.start, align) - r.start

\* C4: a successful allocate(size, align) returns round_up(r.start, align) for a
\* stored range r that the request fits in, and no stored range that fits has a
\* strictly smaller padding.
C4_SmallestPadding ==
    (last_op.kind = "allocate" /\ last_op.some) =>
        \E i \in 1..Len(last_op.pre) :
            /\ last_op.addr = RoundUp(last_op.pre[i].start, last_op.align)
            /\ Fits(last_op.pre[i], last_op.size, last_op.align)
            /\ \A j \in 1..Len(last_op.pre) :
                  Fits(last_op.pre[j], last_op.size, last_op.align) =>
                      ~(Padding(last_op.pre[j], last_op.align)
                            < Padding(last_op.pre[i], last_op.align))

\* ------------------------------------------------------------------------
\* Paging: the kernel's PhysicalMemory and a PageDirectory
\* ------------------------------------------------------------------------

\* map, unmap and translate_virt are called on the first MaxPages pages from
\* virtual address 0x20000000 on and on the first page of the next page table
MaxPages == 2

\* at most MaxCalls paging calls are made
MaxCalls == 4

\* 0x20000000, the first page of the page table of directory index 128; here
\* directory index 3 which, like 128 in the source, is not the table index of
\* any page that is mapped
USER_VADDR == 3 * ENTRIES * PAGE_SIZE

\* 0x20400000, the first page of the next page table
FAR_VADDR == USER_VADDR + ENTRIES * PAGE_SIZE

VirtPages == {USER_VADDR + k * PAGE_SIZE : k \in 0..(MaxPages - 1)} \cup {FAR_VADDR}

\* 0x500, the first address above the BIOS data area, which the bootloader
\* leaves free
LOW_FREE_START == (5 * PAGE_SIZE) \div 16

\* boot_args.free_memory: up to NumFreeFrames whole frames above the boot page
\* tables, alone or with what is left of the low range that starts above the
\* BIOS data area
AlignedFree(k) ==
    <<InclusiveRange(FirstFreeFrame, FirstFreeFrame + k * PAGE_SIZE - 1)>>

LowFree == <<InclusiveRange(LOW_FREE_START, PAGE_SIZE - 1)>>

FreeInits ==
    {low \o AlignedFree(k) : low \in {<<>>, LowFree}, k \in 1..NumFreeFrames}

\* Physical memory at kernel entry: the last PDE of the boot directory points
\* to the last page table, whose entry for LAST_PAGE_TABLE_VADDR maps the table
\* itself.
BootMem ==
    [f \in RamFrames |->
        IF f = BOOT_DIRECTORY
        THEN [ZeroFrame EXCEPT ![ENTRIES - 1] =
                 LAST_PAGE_TABLE_PADDR + PAGE_ENTRY_USER + PAGE_ENTRY_WRITE
                     + PAGE_ENTRY_PRESENT]
        ELSE IF f = LAST_PAGE_TABLE_PADDR
        THEN [ZeroFrame EXCEPT ![ENTRIES - 2] =
                 LAST_PAGE_TABLE_PADDR + PAGE_ENTRY_WRITE + PAGE_ENTRY_PRESENT]
        ELSE ZeroFrame]

Call(kind, virt, phys, size, opt, ok, ret, pre_total, pre_pde, fresh) ==
    [kind |-> kind, virt |-> virt, phys |-> phys, size |-> size, opt |-> opt,
     ok |-> ok, ret |-> ret, pre_total |-> pre_total, pre_pde |-> pre_pde,
     fresh |-> fresh]

NoCall == Call("none", 0, 0, 0, FALSE, FALSE, 0, 0, 0, FALSE)

\* memory_manager::init: the PageDirectory of CR3, no transient window yet
PagingInit ==
    /\ ranges = <<>>
    /\ last_op = NoOp
    /\ num_allocs = 0
    /\ overflow_checks \in BOOLEAN
    /\ halted = FALSE
    /\ memory_ranges \in FreeInits
    /\ current_phys_mapping = NoMapping
    /\ mem = BootMem
    /\ directory = BOOT_DIRECTORY
    /\ last_call = NoCall
    /\ prev_call = NoCall
    /\ returned_phys = {}
    /\ aliases = {}
    /\ num_calls = 0
    /\ HeapStart
    /\ LibIdle
    /\ ProcIdle

Now == Machine(memory_ranges, current_phys_mapping, mem, FALSE)

\* the PDE of virt in the directory in use
PdeOf(virt) == mem[directory][DirectoryIndex(virt)]

\* no PDE of the directory in use is present
Fresh == \A i \in 0..(ENTRIES - 1) : ~Present(mem[directory][i])

\* The machine after a call that returned, or the halt after one that panicked
Commit(r, call, dir, phys_set, alias_set) ==
    IF r.m.panic
    THEN /\ halted' = TRUE
         /\ UNCHANGED <<libVars, prVars, rsVars, pgVars, hpVars, overflow_checks>>
    ELSE /\ memory_ranges' = r.m.memory_ranges
         /\ current_phys_mapping' = r.m.current_phys_mapping
         /\ mem' = r.m.mem
         /\ directory' = dir
         /\ last_call' = call
         /\ prev_call' = IF last_call.kind = "map" THEN last_call ELSE NoCall
         /\ returned_phys' = phys_set
         /\ aliases' = alias_set
         /\ num_calls' = num_calls + 1
         /\ UNCHANGED <<libVars, prVars, rsVars, hpVars, overflow_checks, halted>>

\* PageDirectory::new(phys_mem); the new directory becomes the one in use
New ==
    /\ ~halted
    /\ num_calls < MaxCalls
    /\ \E r \in {new(Now, overflow_checks)} :
           Commit(r,
                  Call("new", 0, 0, 0, FALSE, r.some, r.val,
                       total_size(memory_ranges), 0, FALSE),
                  IF r.some THEN r.val ELSE directory,
                  IF r.some THEN {} ELSE returned_phys,
                  IF r.some THEN {} ELSE aliases)

\* page_dir.map(phys_mem, virt, size, true, false)
Map ==
    /\ ~halted
    /\ num_calls < MaxCalls
    /\ \E virt \in VirtPages, size \in {PAGE_SIZE, 2 * PAGE_SIZE} :
         \E r \in {map(Now, directory, virt, size, TRUE, FALSE, overflow_checks)} :
             Commit(r,
                    Call("map", virt, 0, size, FALSE, r.some, 0,
                         total_size(memory_ranges), PdeOf(virt), Fresh),
                    directory, returned_phys, aliases)

\* page_dir.map_to_phys_page(phys_mem, virt, phys, true, false, update, true)
\* with a physical page translate_virt has returned
MapToPhysPage ==
    /\ ~halted
    /\ num_calls < MaxCalls
    /\ \E virt \in VirtPages, phys \in returned_phys, update \in BOOLEAN :
         \E r \in {map_to_phys_page(Now, directory, virt, phys, TRUE, FALSE, update,
                                  TRUE, overflow_checks)},
            others \in {{a \in aliases : a[1] # virt}} :
             Commit(r,
                    Call("map_to_phys_page", virt, phys, 0, update, r.some, 0,
                         total_size(memory_ranges), PdeOf(virt), Fresh),
                    directory, returned_phys,
                    IF ~r.some THEN aliases
                    ELSE IF update THEN others \cup {<<virt, phys>>}
                    ELSE others)

\* page_dir.unmap(phys_mem, virt, free_page)
Unmap ==
    /\ ~halted
    /\ num_calls < MaxCalls
    /\ \E virt \in VirtPages, free_page \in BOOLEAN :
         \E r \in {unmap(Now, directory, virt, free_page, overflow_checks)} :
             Commit(r,
                    Call("unmap", virt, 0, 0, free_page, r.some, 0,
                         total_size(memory_ranges), PdeOf(virt), Fresh),
                    directory, returned_phys,
                    {a \in aliases : a[1] # virt})

\* page_dir.translate_virt(phys_mem, virt)
TranslateVirt ==
    /\ ~halted
    /\ num_calls < MaxCalls
    /\ \E page \in VirtPages, off \in {0, PAGE_SIZE - 1} :
         \E r \in {translate_virt(Now, directory, page + off)} :
             Commit(r,
                    Call("translate_virt", page + off, 0, 0, FALSE, r.some,
                         r.val, total_size(memory_ranges), PdeOf(page), Fresh),
                    directory,
                    IF /\ r.some
                       /\ off = 0
                       /\ last_call.kind = "map"
                       /\ last_call.ok
                       /\ last_call.virt = page
                       /\ last_call.size = PAGE_SIZE
                    THEN returned_phys \cup {r.val}
                    ELSE returned_phys,
                    aliases)

\* physical addresses and sizes translate_phys is called with
PhysInputs ==
    {FirstFreeFrame, FirstFreeFrame + PAGE_SIZE - 2, LAST_PAGE_TABLE_PADDR + PAGE_SIZE - 2}

SizeInputs == {4, PAGE_SIZE}

\* phys_mem.translate_phys(page_dir, phys, size)
TranslatePhys ==
    /\ ~halted
    /\ num_calls < MaxCalls
    /\ \E phys \in PhysInputs, size \in SizeInputs, has_dir \in BOOLEAN :
         \E r \in {translate_phys(Now, has_dir, phys, size)} :
             Commit(r,
                    Call("translate_phys", 0, phys, size, has_dir, r.some,
                         r.val, total_size(memory_ranges), 0, FALSE),
                    directory, returned_phys, aliases)

PagingNext == New \/ Map \/ MapToPhysPage \/ Unmap \/ TranslateVirt \/ TranslatePhys

PagingSpec == PagingInit /\ [][PagingNext]_vars

\* ------------------------------------------------------------------------
\* The kernel heap as a state machine
\* ------------------------------------------------------------------------

MaxHeapCalls == 5

\* layout.size() of the allocations made: a few bytes, one page, a little
\* more than a page, and as many bytes as lie between the heap's base and the
\* end of the address space
HeapSizes == {4, PAGE_SIZE, PAGE_SIZE + 4, U32_MAX + 1 - KERNEL_ALLOCATIONS_BASE_VADDR}

\* layout.align() of the allocations made
HeapAligns == {4, 2 * PAGE_SIZE}

\* The kernel after memory_manager::init with page-aligned free memory, where
\* every heap page gets a frame of its own
HeapInit ==
    /\ ranges = <<>>
    /\ last_op = NoOp
    /\ num_allocs = 0
    /\ overflow_checks \in BOOLEAN
    /\ halted = FALSE
    /\ memory_ranges \in {AlignedFree(k) : k \in 1..NumFreeFrames}
    /\ current_phys_mapping = NoMapping
    /\ mem = BootMem
    /\ directory = BOOT_DIRECTORY
    /\ last_call = NoCall
    /\ prev_call = NoCall
    /\ returned_phys = {}
    /\ aliases = {}
    /\ num_calls = 0
    /\ HeapStart
    /\ LibIdle
    /\ ProcIdle

HeapNow == Heap(heap_mem, free_pages_list, FALSE)

\* The heap after a call that returned, or the halt of a kernel whose call
\* panicked or does not return
HeapCommit(m, h, next_vaddr, allocs, call) ==
    IF m.panic \/ h.hang
    THEN /\ halted' = TRUE
         /\ UNCHANGED <<libVars, prVars, rsVars, pgVars, hpVars, overflow_checks>>
    ELSE /\ memory_ranges' = m.memory_ranges
         /\ current_phys_mapping' = m.current_phys_mapping
         /\ mem' = m.mem
         /\ heap_mem' = h.heap_mem
         /\ free_pages_list' = h.head
         /\ next_available_vaddr' = next_vaddr
         /\ allocations' = allocs
         /\ heap_call' = call
         /\ heap_prev' = heap_call
         /\ num_calls' = num_calls + 1
         /\ UNCHANGED <<libVars, prVars, rsVars, directory, last_call, prev_call, returned_phys,
                        aliases, overflow_checks, halted>>

\* GlobalAllocator::alloc with a layout whose align fails the assert of
\* alloc_internal: the kernel panics
AllocOverAligned ==
    /\ ~halted
    /\ num_calls < MaxHeapCalls
    /\ \E size \in HeapSizes, align \in HeapAligns :
         /\ ~align_accepted(align)
         /\ halted' = TRUE
         /\ heap_call' = HeapCall("alloc", 0, size, align, FALSE, FALSE,
                                  free_pages_list, next_available_vaddr)
         /\ heap_prev' = heap_call
         /\ UNCHANGED <<libVars, prVars, rsVars, pgVars, next_available_vaddr, free_pages_list,
                        heap_mem, allocations, overflow_checks>>

\* GlobalAllocator::alloc with a layout of `size` bytes that is served from the
\* free list
AllocFromFreeList ==
    /\ ~halted
    /\ num_calls < MaxHeapCalls
    /\ \E size \in HeapSizes, align \in HeapAligns :
         \E r \in {alloc_from_free_list(HeapNow, AlignedSize(size))} :
             /\ align_accepted(align)
             /\ r.some \/ r.h.hang
             /\ HeapCommit(Now, r.h, next_available_vaddr,
                           allocations \cup {<<r.ptr, size>>},
                           HeapCall("alloc", r.ptr, size, align, TRUE, TRUE,
                                    free_pages_list, next_available_vaddr))

\* GlobalAllocator::alloc with a layout of `size` bytes that the free list does
\* not serve: the next virtual addresses are taken and mapped.  A null pointer
\* tells the caller that the allocation failed.
AllocFresh ==
    /\ ~halted
    /\ num_calls < MaxHeapCalls
    /\ \E size \in HeapSizes, align \in HeapAligns :
         \E r \in {alloc_from_free_list(HeapNow, AlignedSize(size))} :
             /\ align_accepted(align)
             /\ ~r.some
             /\ ~r.h.hang
             /\ IF no_room(next_available_vaddr, AlignedSize(size))
                THEN HeapCommit(Now, r.h,
                                fetch_add(next_available_vaddr, AlignedSize(size)),
                                allocations,
                                HeapCall("alloc", 0, size, align, FALSE, FALSE,
                                         free_pages_list, next_available_vaddr))
                ELSE \E mapped \in {map(Now, directory, next_available_vaddr,
                                        AlignedSize(size), TRUE, FALSE,
                                        overflow_checks)} :
                       \E returned \in {mapped.some /\ next_available_vaddr # 0} :
                         HeapCommit(mapped.m, r.h,
                                    fetch_add(next_available_vaddr, AlignedSize(size)),
                                    IF returned
                                    THEN allocations \cup {<<next_available_vaddr, size>>}
                                    ELSE allocations,
                                    HeapCall("alloc",
                                             IF returned THEN next_available_vaddr
                                             ELSE 0,
                                             size, align, returned, FALSE,
                                             free_pages_list, next_available_vaddr))

\* GlobalAllocator::dealloc(ptr, layout) of an allocation alloc returned, with
\* the layout it was asked with
Dealloc ==
    /\ ~halted
    /\ num_calls < MaxHeapCalls
    /\ \E a \in allocations :
         \E h \in {dealloc_internal(HeapNow, a[1], a[2])} :
             HeapCommit(Now, h, next_available_vaddr, allocations \ {a},
                        HeapCall("dealloc", a[1], a[2], 0, TRUE, FALSE,
                                 free_pages_list, next_available_vaddr))

HeapNext == AllocOverAligned \/ AllocFromFreeList \/ AllocFresh \/ Dealloc

HeapSpec == HeapInit /\ [][HeapNext]_vars

\* ------------------------------------------------------------------------
\* Processes and the scheduler: state machine
\* ------------------------------------------------------------------------

MaxSysCalls == 4

\* How many whole frames are free when the first process is made
ProcFrameCounts == {NumProcFrames - 7, NumProcFrames - 1, NumProcFrames}

ProcFrees ==
    {low \o AlignedFree(k) : low \in {<<>>, LowFree}, k \in ProcFrameCounts}

\* elf.entry_point and the one LOAD segment of the program: a read-only page
\* of code at its start
ENTRY_POINT == USER_VADDR

SegContent == [ZeroFrame EXCEPT ![0] = 195]

\* return_eip of yield_execution: an address in the kernel's text
YIELD_RETURN_EIP == KERNEL_HALF * ENTRIES * PAGE_SIZE + 1

SYS_FORK == 5

SYS_EXIT == 6

SYS_WAITPID == 7

ExitCodes == {0, 259}

\* Process::init_elf; val is virtual_memory_ranges after it
init_elf(m, page_directory, checks) ==
    Then(unwrap(map(m, page_directory, USER_STACK_VADDR, USER_STACK_SIZE, TRUE, TRUE,
                    checks)),
         LAMBDA stack :
             IF ~stack.some THEN stack
             ELSE
             Then(unwrap(map_init(stack.m, page_directory, ENTRY_POINT, SegContent,
                                  FALSE, TRUE, checks)),
                  LAMBDA seg :
                      IF ~seg.some THEN seg
                      ELSE Some([i \in 0..(NUM_VM_RANGES - 1) |->
                                    IF i = 0
                                    THEN VmRange(TRUE, USER_STACK_VADDR, 1, TRUE, FALSE)
                                    ELSE IF i = 1
                                    THEN VmRange(TRUE, ENTRY_POINT, 1, FALSE, TRUE)
                                    ELSE NoVmRange],
                                seg.m)))

\* Process::new_from_elf; val is the process
new_from_elf(m, cur_page_dir, kernel_intr_stack, checks) ==
    Then(Process_new(m, cur_page_dir, kernel_intr_stack, checks), LAMBDA proc :
        IF ~proc.some THEN proc
        ELSE
        Then(init_elf(proc.m, proc.val, checks), LAMBDA elf :
            IF ~elf.some THEN elf
            ELSE Some(Process(proc.val, elf.val, kernel_intr_stack,
                              [i \in 0..(NUM_FILE_DESCRIPTORS - 1) |-> NoFd],
                              ROOT_INODE, 0, ENTRY_POINT, FALSE, NoExit),
                      elf.m)))

\* cpu::jump_to_ring3: cr3 is loaded and iretd goes to eip in ring 3; the
\* fetch faults when no page is mapped there
jump_to_ring3(pid, eip, cr3, m) ==
    Cpu(pid, "ring3", eip, cr3, "user", PhysOfUserPointer(m, cr3, eip) < 0)

\* cpu::ring0_context_switch: ret to eip in ring 0
ring0_context_switch(pid, eip, cr3) ==
    Cpu(pid, "ring0", eip, cr3, IF eip = YIELD_RETURN_EIP THEN "yield" ELSE "none",
        eip # YIELD_RETURN_EIP)

\* switch_to_current_process for the process proc of slot pid
switch_to_current_process(proc, pid, m) ==
    IF proc.in_kernel
    THEN ring0_context_switch(pid, proc.eip, proc.page_directory)
    ELSE jump_to_ring3(pid, proc.eip, proc.page_directory, m)

\* set_current_register_state
set_current_register_state(proc, eip, eax) == [proc EXCEPT !.eip = eip, !.eax = eax]

\* The trap shim of vector 0x67: the user context is recorded on the current
\* process before the handler of the call runs
SysEnter(nr) ==
    [processes EXCEPT ![current_process] = set_current_register_state(@, ENTRY_POINT, nr)]

\* yield_execution, first execution, that does not mark the process
yield_save_in_user(proc) ==
    [proc EXCEPT !.eax = 0, !.eip = YIELD_RETURN_EIP]

\* yield_execution, first execution: what is recorded on the current process
yield_save(proc) ==
    [proc EXCEPT !.eax = 0, !.eip = YIELD_RETURN_EIP, !.in_kernel = TRUE]

\* vaddr, frame and content of the user pages of proc as cr3 maps them
UserPages(m, cr3, proc) ==
    Then(RangesPages(proc.virtual_memory_ranges, 0), LAMBDA pages :
        [i \in 1..Len(pages) |->
            Then(PhysOfUserPointer(m, cr3, pages[i].vaddr), LAMBDA paddr :
                [vaddr |-> pages[i].vaddr, paddr |-> paddr,
                 content |-> IF paddr < 0 THEN ZeroFrame ELSE m.mem[FrameOf(paddr)]])])

\* The first process: the kernel makes it from the init program on the
\* machine the bootloader left, with free memory `free`
FirstProcess(free, checks) ==
    new_from_elf(Machine(free, NoMapping, BootMem, FALSE), BOOT_DIRECTORY,
                 INIT_INTR_STACK_VADDR, checks)

\* VFS::FileDescription
FileDescription(inode, offset, file_type) ==
    [inode |-> inode, offset |-> offset, file_type |-> file_type]

\* The first process after its open of "/": syscall_open has added two
\* descriptions and made the descriptors 3 and 4 name the second
WithRootOpen(proc) ==
    [proc EXCEPT !.file_descriptors[3] = 1, !.file_descriptors[4] = 1]

\* The kernel has made the first process and jumped to it; it may have
\* opened "/" since
ProcInit ==
    /\ ranges = <<>>
    /\ last_op = NoOp
    /\ num_allocs = 0
    /\ overflow_checks \in BOOLEAN
    /\ halted = FALSE
    /\ directory = BOOT_DIRECTORY
    /\ last_call = NoCall
    /\ prev_call = NoCall
    /\ returned_phys = {}
    /\ aliases = {}
    /\ num_calls = 0
    /\ HeapStart
    /\ LibIdle
    /\ \E free \in ProcFrees, opened \in BOOLEAN :
         \E r \in {FirstProcess(free, overflow_checks)} :
           \E c \in {IF r.some THEN switch_to_current_process(r.val, 0, r.m)
                     ELSE NoCpu} :
             /\ r.some
             /\ ~c.fault
             /\ memory_ranges = r.m.memory_ranges
             /\ current_phys_mapping = r.m.current_phys_mapping
             /\ mem = r.m.mem
             /\ processes = [p \in 0..1 |->
                                IF p = 1 THEN NoProcess
                                ELSE IF opened THEN WithRootOpen(r.val) ELSE r.val]
             /\ current_process = 0
             /\ cpu = c
             /\ suspended = {}
             /\ file_descriptions =
                    IF opened THEN <<FileDescription(ROOT_INODE, 0, "Directory"),
                                     FileDescription(ROOT_INODE, 0, "Directory")>>
                    ELSE <<>>
             /\ sys_call = NoSysCall
             /\ num_sys_calls = 0

\* A panic: the kernel stops
ProcHalt ==
    /\ halted' = TRUE
    /\ UNCHANGED <<libVars, rsVars, pgVars, hpVars, prVars, overflow_checks>>

\* Physical memory after a call
ProcCommit(m) ==
    /\ memory_ranges' = m.memory_ranges
    /\ current_phys_mapping' = m.current_phys_mapping
    /\ mem' = m.mem
    /\ UNCHANGED <<libVars, rsVars, hpVars, directory, last_call, prev_call, returned_phys,
                   aliases, num_calls, file_descriptions, overflow_checks>>

\* A process in ring 3 can make a system call
CanCall ==
    /\ ~halted
    /\ cpu.pc = "user"
    /\ num_sys_calls < MaxSysCalls

\* syscall_fork
Fork ==
    /\ CanCall
    /\ \E procs \in {SysEnter(SYS_FORK)} :
         \E r \in {new_from_fork(Now, cpu.cr3, directory, KERNEL_INTR_STACK_VADDR,
                                 procs[current_process], overflow_checks)} :
           IF r.m.panic THEN ProcHalt
           ELSE /\ processes' = [procs EXCEPT ![1] = r.val]
                /\ suspended' = suspended \ {1}
                /\ sys_call' = SysCall("fork", current_process, 0, TRUE, 1,
                                       procs[current_process], memory_ranges,
                                       UserPages(Now, cpu.cr3, procs[current_process]),
                                       FALSE)
                /\ num_sys_calls' = num_sys_calls + 1
                /\ ProcCommit(r.m)
                /\ UNCHANGED <<current_process, cpu, halted>>

\* The end of a call that leaves through switch_to_current_process with
\* `next` as the current process; a page fault at the target panics
Switch(procs, next, m, call, susp) ==
    IF ~procs[next].present THEN ProcHalt
    ELSE \E c \in {switch_to_current_process(procs[next], next, m)} :
           /\ processes' = procs
           /\ current_process' = next
           /\ cpu' = c
           /\ suspended' = susp
           /\ sys_call' = call
           /\ num_sys_calls' = num_sys_calls + 1
           /\ halted' = c.fault
           /\ ProcCommit(m)

\* syscall_waitpid(pid, null, 0) up to the switch of yield_execution
WaitPID ==
    /\ CanCall
    /\ \E pid \in {1} :
         \E procs \in {[SysEnter(SYS_WAITPID) EXCEPT ![current_process] = yield_save(@)]} :
           Switch(procs, 1, Now,
                  SysCall("waitpid", current_process, pid, FALSE, 0,
                          processes[current_process], memory_ranges, <<>>, TRUE),
                  suspended \cup {current_process})

\* yield_execution when the process is scheduled again, and the return of
\* syscall_waitpid
YieldResume ==
    /\ ~halted
    /\ cpu.pc = "yield"
    /\ processes' = [processes EXCEPT ![current_process].in_kernel = FALSE]
    /\ cpu' = [cpu EXCEPT !.pc = "user"]
    /\ suspended' = suspended \ {current_process}
    /\ sys_call' = SysCall("resume", current_process, 0, TRUE, 0,
                           processes[current_process], memory_ranges, <<>>, FALSE)
    /\ UNCHANGED <<libVars, rsVars, pgVars, hpVars, current_process, file_descriptions,
                   num_sys_calls, overflow_checks, halted>>

\* syscall_exit
Exit ==
    /\ CanCall
    /\ \E exit_code \in ExitCodes :
         IF current_process # 1 THEN ProcHalt
         ELSE \E procs \in {SysEnter(SYS_EXIT)} :
                \E r \in {exit(Now, procs[1], exit_code % 256, overflow_checks)} :
                  IF r.m.panic THEN ProcHalt
                  ELSE Switch([procs EXCEPT ![1] = r.val], 0, r.m,
                              SysCall("exit", 1, exit_code % 256, TRUE, 0, procs[1],
                                      memory_ranges,
                                      UserPages(Now, procs[1].page_directory, procs[1]),
                                      TRUE),
                              suspended \ {1})

ProcNext == Fork \/ WaitPID \/ YieldResume \/ Exit

ProcSpec == ProcInit /\ [][ProcNext]_vars

\* ------------------------------------------------------------------------
\* kernel/vfs.rs, kernel/syscall.rs and the ext2 parser
\* ------------------------------------------------------------------------

NUM_FILE_DESCRIPTIONS == 256

\* The length of inode_walk in syscall_getcwd: 128 in the source, scaled down
\* with the depth of the directories on the disk
INODE_WALK_LEN == 8

\* size_of::<SyscallDirectoryEntry>()
DIRENT_SIZE == 264

InvalidFileDescriptor == 2

OpenFileLimitReached == 3

InvalidPath == 5

PathIsNotDirectory == 7

BufferTooSmall == 8

\* SyscallError::to_i32
to_i32(error) == 0 - error

\* The file system on the disk.  Strings are sequences of characters.  The
\* root (inode 2) holds a removed entry, the directory a (3), the file f (4)
\* and the directory d (10); a holds the directory b (5); and MaxDepth
\* directories named d, inodes 10.., lie one inside the other.
MaxDepth == INODE_WALK_LEN

FIRST_CHAIN_INODE == 10

FILE_SIZE == 3

\* DirectoryEntry.size of every entry
DIR_ENTRY_SIZE == 12

DirEntry(inode, name, type_indicator) ==
    [inode |-> inode, name |-> name, type_indicator |-> type_indicator]

ChainInodes == FIRST_CHAIN_INODE..(FIRST_CHAIN_INODE + MaxDepth - 1)

\* The directory entries in the data blocks of `inode`, in disk order
DirEntries(inode) ==
    IF inode = ROOT_INODE
    THEN <<DirEntry(ROOT_INODE, <<".">>, "Directory"),
           DirEntry(ROOT_INODE, <<".", ".">>, "Directory"),
           DirEntry(0, <<"x">>, "RegularFile"),
           DirEntry(3, <<"a">>, "Directory"),
           DirEntry(4, <<"f">>, "RegularFile"),
           DirEntry(FIRST_CHAIN_INODE, <<"d">>, "Directory")>>
    ELSE IF inode = 3
    THEN <<DirEntry(3, <<".">>, "Directory"),
           DirEntry(ROOT_INODE, <<".", ".">>, "Directory"),
           DirEntry(5, <<"b">>, "Directory")>>
    ELSE IF inode = 5
    THEN <<DirEntry(5, <<".">>, "Directory"),
           DirEntry(3, <<".", ".">>, "Directory")>>
    ELSE <<DirEntry(inode, <<".">>, "Directory"),
           DirEntry(IF inode = FIRST_CHAIN_INODE THEN ROOT_INODE ELSE inode - 1,
                    <<".", ".">>, "Directory")>>
         \o (IF inode < FIRST_CHAIN_INODE + MaxDepth - 1
             THEN <<DirEntry(inode + 1, <<"d">>, "Directory")>>
             ELSE <<>>)

\* Ext2Parser::for_each_directory_entry with a callback that breaks at the
\* first entry named `name`: the index of that entry from i on, 0 if none
RECURSIVE find_by_name(_, _, _)
find_by_name(entries, name, i) ==
    IF i > Len(entries) THEN 0
    ELSE IF entries[i].inode # 0 /\ entries[i].name = name THEN i
    ELSE find_by_name(entries, name, i + 1)

\* Ext2Parser::for_each_directory_entry with a callback that breaks at the
\* first entry whose inode is `inode`: its index from i on, 0 if none
RECURSIVE find_by_inode(_, _, _)
find_by_inode(entries, inode, i) ==
    IF i > Len(entries) THEN 0
    ELSE IF entries[i].inode # 0 /\ entries[i].inode = inode THEN i
    ELSE find_by_inode(entries, inode, i + 1)

\* str::split('/') from character i on, `component` being the characters
\* of the component read so far
RECURSIVE split(_, _, _)
split(path, i, component) ==
    IF i > Len(path) THEN <<component>>
    ELSE IF path[i] = "/" THEN <<component>> \o split(path, i + 1, <<>>)
    ELSE split(path, i + 1, Append(component, path[i]))

Resolved(some, inode, entry_type) ==
    [some |-> some, inode |-> inode, entry_type |-> entry_type]

\* The loop over the components of Ext2Parser::resolve_path_to_inode
RECURSIVE resolve_components(_, _, _, _, _, _)
resolve_components(components, i, inode, entry_type, reached_file, must_be_dir) ==
    IF i > Len(components)
    THEN IF must_be_dir /\ entry_type # "Directory"
         THEN Resolved(FALSE, 0, "")
         ELSE Resolved(TRUE, inode, entry_type)
    ELSE IF components[i] = <<>> \/ reached_file THEN Resolved(FALSE, 0, "")
    ELSE Then(find_by_name(DirEntries(inode), components[i], 1), LAMBDA found :
             IF found = 0 THEN Resolved(FALSE, 0, "")
             ELSE Then(DirEntries(inode)[found], LAMBDA child :
                      resolve_components(components, i + 1, child.inode,
                                         child.type_indicator,
                                         child.type_indicator # "Directory",
                                         must_be_dir)))

\* Ext2Parser::resolve_path_to_inode that forgets the `/` it stripped
resolve_path_to_inode_any(path, base_inode) ==
    IF path = <<"/">> THEN Resolved(TRUE, ROOT_INODE, "Directory")
    ELSE
    Then(IF Len(path) > 0 /\ path[1] = "/" THEN ROOT_INODE ELSE base_inode,
         LAMBDA base :
    Then(IF Len(path) > 0 /\ path[1] = "/" THEN SubSeq(path, 2, Len(path)) ELSE path,
         LAMBDA rel :
             IF Len(rel) > 0 /\ rel[Len(rel)] = "/"
             THEN resolve_components(split(SubSeq(rel, 1, Len(rel) - 1), 1, <<>>), 1,
                                     base, "Directory", FALSE, FALSE)
             ELSE resolve_components(split(rel, 1, <<>>), 1, base, "Directory",
                                     FALSE, FALSE)))

\* Ext2Parser::resolve_path_to_inode
resolve_path_to_inode(path, base_inode) ==
    IF path = <<"/">> THEN Resolved(TRUE, ROOT_INODE, "Directory")
    ELSE
    Then(IF Len(path) > 0 /\ path[1] = "/" THEN ROOT_INODE ELSE base_inode,
         LAMBDA base :
    Then(IF Len(path) > 0 /\ path[1] = "/" THEN SubSeq(path, 2, Len(path)) ELSE path,
         LAMBDA rel :
             IF Len(rel) > 0 /\ rel[Len(rel)] = "/"
             THEN resolve_components(split(SubSeq(rel, 1, Len(rel) - 1), 1, <<>>), 1,
                                     base, "Directory", FALSE, TRUE)
             ELSE resolve_components(split(rel, 1, <<>>), 1, base, "Directory",
                                     FALSE, FALSE)))

NextEntry(some, next_opaque_offset, entry) ==
    [some |-> some, next_opaque_offset |-> next_opaque_offset, entry |-> entry]

\* Ext2Parser::get_next_directory_entry from entry i on, total_offset being
\* the offset of entry i
RECURSIVE get_next_directory_entry(_, _, _, _)
get_next_directory_entry(entries, opaque_offset, i, total_offset) ==
    IF i > Len(entries) THEN NextEntry(FALSE, 0, DirEntry(0, <<>>, ""))
    ELSE IF total_offset = opaque_offset
    THEN IF entries[i].inode = 0
         THEN get_next_directory_entry(entries, opaque_offset + DIR_ENTRY_SIZE, i + 1,
                                       total_offset + DIR_ENTRY_SIZE)
         ELSE NextEntry(TRUE, total_offset + DIR_ENTRY_SIZE, entries[i])
    ELSE IF total_offset > opaque_offset
    THEN NextEntry(FALSE, 0, DirEntry(0, <<>>, ""))
    ELSE get_next_directory_entry(entries, opaque_offset, i + 1,
                                  total_offset + DIR_ENTRY_SIZE)

\* Ext2Parser::get_contents_with_offset for the one-block file f: how many
\* bytes it reads into a buffer of buffer_len bytes
get_contents_with_offset(buffer_len, offset) ==
    IF buffer_len = 0 THEN 0
    ELSE IF offset < FILE_SIZE
    THEN IF FILE_SIZE - offset < buffer_len THEN FILE_SIZE - offset ELSE buffer_len
    ELSE 0

\* FileDescriptionTable::add_description: the index of the new entry, or
\* NoFd when the table is full.  No entry is ever taken out of the table, so
\* the first free entry is the one after the last.
add_description(descriptions) ==
    IF Len(descriptions) < NUM_FILE_DESCRIPTIONS THEN Len(descriptions) ELSE NoFd

\* Process::alloc_file_descriptor: the slot it takes from slot i on, or NoFd
RECURSIVE alloc_file_descriptor(_, _)
alloc_file_descriptor(file_descriptors, i) ==
    IF i >= NUM_FILE_DESCRIPTORS THEN NoFd
    ELSE IF file_descriptors[i] = NoFd THEN i
    ELSE alloc_file_descriptor(file_descriptors, i + 1)

\* Process::get_file_descriptor that takes every number as slot 3
get_file_descriptor_of_3(file_descriptors, fd) == file_descriptors[3]

\* Process::get_file_descriptor
get_file_descriptor(file_descriptors, fd) ==
    IF fd >= NUM_FILE_DESCRIPTORS THEN NoFd ELSE file_descriptors[fd]

\* What a call leaves: its return value, the process, the description table
\* and what a call that succeeds wrote to the user's buffer; panic: it never
\* returned
Out(ret, proc, descriptions, buf, panic) ==
    [ret |-> ret, proc |-> proc, descriptions |-> descriptions, buf |-> buf,
     panic |-> panic]

\* syscall_open.  unwrap_or_return!(x, err) expands to
\* `if x.is_none() { return err } else { x.unwrap() }`: x is evaluated once
\* for the test and once more for the value, so add_description and
\* alloc_file_descriptor each run twice when their first run returns Some,
\* and the value used is that of the second run, whose unwrap panics on None.
syscall_open(proc, descriptions, path) ==
    Then(resolve_path_to_inode(path, proc.cwd_inode), LAMBDA resolved :
        IF ~resolved.some THEN Out(to_i32(InvalidPath), proc, descriptions, <<>>, FALSE)
        ELSE
        Then(FileDescription(resolved.inode, 0,
                 IF resolved.entry_type = "Directory" THEN "Directory" ELSE "File"),
             LAMBDA desc :
        IF add_description(descriptions) = NoFd
        THEN Out(to_i32(OpenFileLimitReached), proc, descriptions, <<>>, FALSE)
        ELSE
        Then(Append(descriptions, desc), LAMBDA tested :
        IF add_description(tested) = NoFd THEN Out(0, proc, tested, <<>>, TRUE)
        ELSE
        Then(add_description(tested), LAMBDA desc_idx :
        Then(Append(tested, desc), LAMBDA added :
        Then(alloc_file_descriptor(proc.file_descriptors, 3), LAMBDA first :
        IF first = NoFd
        THEN Out(to_i32(OpenFileLimitReached), proc, added, <<>>, FALSE)
        ELSE
        Then([proc EXCEPT !.file_descriptors[first] = desc_idx], LAMBDA taken :
        Then(alloc_file_descriptor(taken.file_descriptors, 3), LAMBDA fd :
        IF fd = NoFd THEN Out(0, taken, added, <<>>, TRUE)
        ELSE Out(fd, [taken EXCEPT !.file_descriptors[fd] = desc_idx], added,
                 <<>>, FALSE)))))))))

\* syscall_close
syscall_close(proc, descriptions, fd) ==
    IF fd >= NUM_FILE_DESCRIPTORS \/ proc.file_descriptors[fd] = NoFd
    THEN Out(to_i32(InvalidFileDescriptor), proc, descriptions, <<>>, FALSE)
    ELSE Out(0, [proc EXCEPT !.file_descriptors = close_file_descriptor(@, fd)],
             descriptions, <<>>, FALSE)

\* The FileType::Directory arm of syscall_read that moves the offset before
\* it looks at the size of the buffer
read_directory_eager(proc, descriptions, descriptor, num_bytes) ==
    Then(get_next_directory_entry(DirEntries(descriptions[descriptor + 1].inode),
                                  descriptions[descriptor + 1].offset, 1, 0),
         LAMBDA entry :
             IF ~entry.some THEN Out(0, proc, descriptions, <<>>, FALSE)
             ELSE IF num_bytes < DIRENT_SIZE
             THEN Out(to_i32(BufferTooSmall), proc,
                      [descriptions EXCEPT ![descriptor + 1].offset =
                                               entry.next_opaque_offset],
                      <<>>, FALSE)
             ELSE Out(DIRENT_SIZE, proc,
                      [descriptions EXCEPT ![descriptor + 1].offset =
                                               entry.next_opaque_offset],
                      <<entry.entry>>, FALSE))

\* The FileType::Directory arm of syscall_read
read_directory(proc, descriptions, descriptor, num_bytes) ==
    Then(get_next_directory_entry(DirEntries(descriptions[descriptor + 1].inode),
                                  descriptions[descriptor + 1].offset, 1, 0),
         LAMBDA entry :
             IF ~entry.some THEN Out(0, proc, descriptions, <<>>, FALSE)
             ELSE IF num_bytes < DIRENT_SIZE
             THEN Out(to_i32(BufferTooSmall), proc, descriptions, <<>>, FALSE)
             ELSE Out(DIRENT_SIZE, proc,
                      [descriptions EXCEPT ![descriptor + 1].offset =
                                               entry.next_opaque_offset],
                      <<entry.entry>>, FALSE))

\* The FileType::File arm of syscall_read
read_file(proc, descriptions, descriptor, num_bytes) ==
    Then(get_contents_with_offset(num_bytes, descriptions[descriptor + 1].offset),
         LAMBDA num_read :
             Out(num_read, proc,
                 [descriptions EXCEPT ![descriptor + 1].offset = @ + num_read],
                 [k \in 1..num_read |-> "byte"], FALSE))

\* syscall_read; key: the character typed at the keyboard, as often as asked
syscall_read(proc, descriptions, fd, num_bytes, key) ==
    IF fd = 0
    THEN Out(num_bytes, proc, descriptions, [k \in 1..num_bytes |-> key], FALSE)
    ELSE
    Then(get_file_descriptor(proc.file_descriptors, fd), LAMBDA descriptor :
        IF descriptor = NoFd
        THEN Out(to_i32(InvalidFileDescriptor), proc, descriptions, <<>>, FALSE)
        ELSE IF descriptor >= Len(descriptions)
        THEN Out(0, proc, descriptions, <<>>, TRUE)
        ELSE IF descriptions[descriptor + 1].file_type = "File"
        THEN read_file(proc, descriptions, descriptor, num_bytes)
        ELSE read_directory(proc, descriptions, descriptor, num_bytes))

\* syscall_stat: the buffer gets the inode's number
syscall_stat(proc, descriptions, path) ==
    Then(resolve_path_to_inode(path, proc.cwd_inode), LAMBDA resolved :
        IF ~resolved.some THEN Out(to_i32(InvalidPath), proc, descriptions, <<>>, FALSE)
        ELSE Out(0, proc, descriptions, <<resolved.inode>>, FALSE))

\* The first loop of syscall_getcwd: inode_walk[..=walk_index] when it has
\* reached the root, <<>> when the assertion fails.  inode_walk is kept
\* 1-based: inode_walk[k + 1] is the code's inode_walk[k].
RECURSIVE getcwd_walk(_, _)
getcwd_walk(inode_walk, walk_index) ==
    IF inode_walk[walk_index + 1] = ROOT_INODE THEN inode_walk
    ELSE IF ~(walk_index + 1 < INODE_WALK_LEN) THEN <<>>
    ELSE Then(DirEntries(inode_walk[walk_index + 1]), LAMBDA entries :
         Then(find_by_name(entries, <<".", ".">>, 1), LAMBDA found :
             getcwd_walk(Append(inode_walk, IF found = 0 THEN 0 ELSE entries[found].inode),
                         walk_index + 1)))

\* The second loop of syscall_getcwd from i down: buf when it has written
\* every name, <<"!">> when the buffer is too small
RECURSIVE getcwd_replay(_, _, _, _)
getcwd_replay(inode_walk, i, buf, size) ==
    IF i < 1 THEN buf
    ELSE Then(DirEntries(inode_walk[i + 1]), LAMBDA entries :
         Then(find_by_inode(entries, inode_walk[i], 1), LAMBDA found :
             IF found = 0 THEN getcwd_replay(inode_walk, i - 1, buf, size)
             ELSE IF Len(buf) + Len(entries[found].name) + 2 > size THEN <<"!">>
             ELSE getcwd_replay(inode_walk, i - 1,
                                buf \o <<"/">> \o entries[found].name, size)))

\* syscall_getcwd; buf is what it wrote, "NUL" being the byte 0
syscall_getcwd(proc, descriptions, size) ==
    IF proc.cwd_inode = ROOT_INODE
    THEN IF size < 2 THEN Out(to_i32(BufferTooSmall), proc, descriptions, <<>>, FALSE)
         ELSE Out(1, proc, descriptions, <<"/", "NUL">>, FALSE)
    ELSE
    Then(getcwd_walk(<<proc.cwd_inode>>, 0), LAMBDA inode_walk :
        IF inode_walk = <<>> THEN Out(0, proc, descriptions, <<>>, TRUE)
        ELSE
        Then(getcwd_replay(inode_walk, Len(inode_walk) - 1, <<>>, size), LAMBDA buf :
            IF buf = <<"!">>
            THEN Out(to_i32(BufferTooSmall), proc, descriptions, <<>>, FALSE)
            ELSE Out(Len(buf), proc, descriptions, Append(buf, "NUL"), FALSE)))

\* syscall_changecwd
syscall_changecwd(proc, descriptions, path) ==
    Then(resolve_path_to_inode(path, proc.cwd_inode), LAMBDA resolved :
        IF ~resolved.some THEN Out(to_i32(InvalidPath), proc, descriptions, <<>>, FALSE)
        ELSE IF resolved.entry_type # "Directory"
        THEN Out(to_i32(PathIsNotDirectory), proc, descriptions, <<>>, FALSE)
        ELSE Out(0, [proc EXCEPT !.cwd_inode = resolved.inode], descriptions, <<>>,
                 FALSE))

\* ------------------------------------------------------------------------
\* File system calls: state machine
\* ------------------------------------------------------------------------

MaxFsCalls == 3

\* "/d/d/../d" with n components
RECURSIVE DeepPath(_)
DeepPath(n) == IF n = 0 THEN <<>> ELSE <<"/", "d">> \o DeepPath(n - 1)

Paths ==
    {<<"/">>, <<"/", "a">>, <<"b">>, <<"/", "a", "/", "b", "/">>, <<"f">>,
     <<"/", "f", "/">>, <<"x">>, <<".", ".">>, <<"a", "/", "/", "b">>,
     DeepPath(INODE_WALK_LEN - 1), DeepPath(INODE_WALK_LEN)}

Fds == {0, 3, 4, 42}

ReadSizes == {0, 2, DIRENT_SIZE}

CwdSizes == {1, 4, 2 * MaxDepth + 2}

\* What n calls of syscall_open(path) leave after the calls that left out
RECURSIVE open_times(_, _, _)
open_times(out, path, n) ==
    IF n = 0 THEN out
    ELSE open_times(syscall_open(out.proc, out.descriptions, path), path, n - 1)

\* What the calls the process made before leave: none; one open of "/"; or
\* opens of "/" until one slot of its table is left, a close of descriptor
\* 3 and an open of "f", which leave the table with no free slot
PriorCalls(proc, history) ==
    IF history = "none" THEN Out(0, proc, <<>>, <<>>, FALSE)
    ELSE IF history = "one"
    THEN open_times(Out(0, proc, <<>>, <<>>, FALSE), <<"/">>, 1)
    ELSE Then(open_times(Out(0, proc, <<>>, <<>>, FALSE), <<"/">>,
                         (NUM_FILE_DESCRIPTORS - 3) \div 2), LAMBDA opened :
         Then(syscall_close(opened.proc, opened.descriptions, 3), LAMBDA closed :
             syscall_open(closed.proc, closed.descriptions, <<"f">>)))

\* The description table after opens and closes of "f" that have filled it
FilledDescriptions(descriptions) ==
    [i \in 1..NUM_FILE_DESCRIPTIONS |->
        IF i <= Len(descriptions) THEN descriptions[i]
        ELSE FileDescription(4, 0, "File")]

\* The first process runs; it has opened no file, one, or as many as its
\* table holds, and the description table may have filled up since
FsInit ==
    /\ ranges = <<>>
    /\ last_op = NoOp
    /\ num_allocs = 0
    /\ overflow_checks = FALSE
    /\ halted = FALSE
    /\ directory = BOOT_DIRECTORY
    /\ last_call = NoCall
    /\ prev_call = NoCall
    /\ returned_phys = {}
    /\ aliases = {}
    /\ num_calls = 0
    /\ HeapStart
    /\ LibIdle
    /\ \E history \in {"none", "one", "many"}, full \in BOOLEAN :
         \E r \in {FirstProcess(AlignedFree(NumProcFrames), FALSE)} :
             /\ r.some
             /\ memory_ranges = r.m.memory_ranges
             /\ current_phys_mapping = r.m.current_phys_mapping
             /\ mem = r.m.mem
             /\ \E prior \in {PriorCalls(r.val, history)} :
                  /\ ~prior.panic
                  /\ processes = [p \in 0..1 |->
                                     IF p = 1 THEN NoProcess ELSE prior.proc]
                  /\ file_descriptions =
                         IF full THEN FilledDescriptions(prior.descriptions)
                         ELSE prior.descriptions
             /\ current_process = 0
             /\ cpu = switch_to_current_process(r.val, 0, r.m)
             /\ suspended = {}
             /\ sys_call = NoSysCall
             /\ num_sys_calls = 0

\* A file system call of the current process: its arguments, what it
\* returned and wrote, the process and the description table before it, and
\* the call before it
FsCall(kind, arg, out) ==
    [kind |-> kind, pid |-> current_process, arg |-> arg,
     ok |-> out.ret >= 0 /\ ~out.panic, ret |-> out.ret, buf |-> out.buf,
     panic |-> out.panic, pre |-> processes[current_process],
     pre_descriptions |-> file_descriptions, prev_kind |-> sys_call.kind,
     prev_ok |-> sys_call.ok, switched |-> FALSE]

\* The state after a file system call; a panic stops the kernel
FsCommit(kind, arg, out) ==
    /\ processes' = [processes EXCEPT ![current_process] = out.proc]
    /\ file_descriptions' = out.descriptions
    /\ sys_call' = FsCall(kind, arg, out)
    /\ num_sys_calls' = num_sys_calls + 1
    /\ halted' = out.panic
    /\ UNCHANGED <<libVars, rsVars, pgVars, hpVars, current_process, cpu, suspended,
                   overflow_checks>>

FsCanCall ==
    /\ ~halted
    /\ cpu.pc = "user"
    /\ num_sys_calls < MaxFsCalls

\* syscall_open(path, 0)
Open ==
    /\ FsCanCall
    /\ \E path \in Paths :
         FsCommit("open", [path |-> path],
                  syscall_open(processes[current_process], file_descriptions, path))

\* syscall_close(fd)
Close ==
    /\ FsCanCall
    /\ \E fd \in Fds :
         FsCommit("close", [fd |-> fd],
                  syscall_close(processes[current_process], file_descriptions, fd))

\* syscall_read(fd, buf, num_bytes)
Read ==
    /\ FsCanCall
    /\ \E fd \in Fds, num_bytes \in ReadSizes :
         FsCommit("read", [fd |-> fd, num_bytes |-> num_bytes],
                  syscall_read(processes[current_process], file_descriptions, fd,
                               num_bytes, "k"))

\* syscall_stat(path, stat_buf)
Stat ==
    /\ FsCanCall
    /\ \E path \in Paths :
         FsCommit("stat", [path |-> path],
                  syscall_stat(processes[current_process], file_descriptions, path))

\* syscall_getcwd(buf, size)
GetCWD ==
    /\ FsCanCall
    /\ \E size \in CwdSizes :
         FsCommit("getcwd", [size |-> size],
                  syscall_getcwd(processes[current_process], file_descriptions, size))

\* syscall_changecwd(path)
ChangeCWD ==
    /\ FsCanCall
    /\ \E path \in Paths :
         FsCommit("changecwd", [path |-> path],
                  syscall_changecwd(processes[current_process], file_descriptions,
                                    path))

FsNext == Open \/ Close \/ Read \/ Stat \/ GetCWD \/ ChangeCWD

FsSpec == FsInit /\ [][FsNext]_vars

\* ------------------------------------------------------------------------
\* Path resolution: calls of resolve_path_to_inode on the directory tree
\* ------------------------------------------------------------------------

\* The memory managers and the scheduler in a specification that does not
\* use them
MachineIdle ==
    /\ ranges = <<>>
    /\ last_op = NoOp
    /\ num_allocs = 0
    /\ halted = FALSE
    /\ memory_ranges = <<>>
    /\ current_phys_mapping = NoMapping
    /\ mem = <<>>
    /\ directory = 0
    /\ last_call = <<>>
    /\ prev_call = <<>>
    /\ returned_phys = {}
    /\ aliases = {}
    /\ num_calls = 0
    /\ HeapStart
    /\ ProcIdle

MachineUnchanged ==
    UNCHANGED <<rsVars, pgVars, hpVars, prVars, overflow_checks, halted>>

\* The rest of the kernel in a specification of one library
KernelIdle == MachineIdle /\ ConIdle

KernelUnchanged == MachineUnchanged /\ UNCHANGED conVars

MaxPathLen == 4

PathChars == {"/", "a", "b", "f", "."}

\* Every path of at most MaxPathLen characters
ResolvePaths ==
    UNION {[1..n -> PathChars] : n \in 0..MaxPathLen}

ResolveInit ==
    /\ KernelIdle
    /\ overflow_checks = FALSE
    /\ image = "tree"
    /\ \E path \in ResolvePaths, base_inode \in {ROOT_INODE, 3} :
         ext_call = [kind |-> "args", path |-> path, base_inode |-> base_inode]
    /\ interrupt_flag = FALSE
    /\ lock_cells = <<>>
    /\ guards = {}
    /\ cells = <<>>
    /\ sync_call = [kind |-> "none"]
    /\ idt = <<>>
    /\ in_service = {}
    /\ int_call = [kind |-> "none"]

\* resolve_path_to_inode(path, base_inode) for the arguments drawn and, for
\* the comparison, resolve_path_to_inode(path + "/", base_inode)
Resolve ==
    /\ ext_call.kind = "args"
    /\ ext_call' = [kind |-> "resolve", path |-> ext_call.path,
                    base_inode |-> ext_call.base_inode,
                    result |-> resolve_path_to_inode(ext_call.path,
                                                     ext_call.base_inode),
                    with_slash |-> resolve_path_to_inode(Append(ext_call.path, "/"),
                                                         ext_call.base_inode)]
    /\ UNCHANGED <<image, interrupt_flag, lock_cells, guards, cells, sync_call, idt,
                   in_service, int_call>>
    /\ KernelUnchanged

ResolveNext == Resolve

ResolveSpec == ResolveInit /\ [][ResolveNext]_vars

\* ------------------------------------------------------------------------
\* The ext2 parser on the blocks of an image
\* ------------------------------------------------------------------------

\* The block size: 1024 << block_size_exponent in the source, scaled down
BlockSize == 32

\* size_of::<BlockAddr>()
PTR_SIZE == 4

\* size_of::<DirectoryEntry>()
DIR_ENTRY_HEADER_SIZE == 8

INODE_DIRECT_PTR_COUNT == 12

\* Ext2Parser.num_ptrs_per_block
num_ptrs_per_block == BlockSize \div PTR_SIZE

\* DirEntryType::RegularFile and DirEntryType::Directory as stored
TYPE_REGULAR_FILE == 1

TYPE_DIRECTORY == 2

\* The n bytes of v, little endian
LeBytes(v, n) == [i \in 1..n |-> (v \div (256 ^ (i - 1))) % 256]

Zeros(n) == [i \in 1..n |-> 0]

\* A block of pointers: ptrs, then zeros
PtrBlock(ptrs) ==
    [i \in 1..BlockSize |->
        IF ((i - 1) \div PTR_SIZE) < Len(ptrs)
        THEN LeBytes(ptrs[((i - 1) \div PTR_SIZE) + 1], PTR_SIZE)[((i - 1) % PTR_SIZE) + 1]
        ELSE 0]

\* A stored directory entry of `size` bytes
StoredEntry(inode, size, name, type_indicator) ==
    LeBytes(inode, 4) \o LeBytes(size, 2) \o <<Len(name), type_indicator>> \o name
        \o Zeros(size - DIR_ENTRY_HEADER_SIZE - Len(name))

\* An entry with a name of one character takes 12 bytes
SHORT_ENTRY == 12

\* The blocks an inode number of the big directory or the big file has:
\* the direct ones, a full singly indirect block and two more
ManyBlocks == INODE_DIRECT_PTR_COUNT + num_ptrs_per_block + 2

\* The name of entry i of the big directory: "e" and two digits
BigName(i) == <<101, 48 + (i \div 10), 48 + (i % 10)>>

\* Byte pos of a file
FileByte(pos) == 1 + (pos % 250)

\* The data block k of a file
FileBlock(k) == [i \in 1..BlockSize |-> FileByte(k * BlockSize + i - 1)]

BIG_DIR_INODE == 3

SMALL_FILE_INODE == 4

BIG_FILE_INODE == 5

SPARSE_FILE_INODE == 6

NumBlocks == 400

\* Block n of an image.  Block 0 is the boot block, which ext2 leaves to the
\* boot loader: zeros in one image, code in the other.  Blocks 20..22 hold
\* the root directory, with removed entries at the end of the first block
\* and at the start of the second; 100.. hold the big directory, one entry
\* a block, block 113 with a removed entry before it; 30 and 31 hold the
\* small file, 200.. the big file, 40 and 41 the two blocks of the file with
\* a hole; 50..52 and 60..62 are blocks of pointers.
Block(img, n) ==
    IF n = 0
    THEN IF img = "boot_code"
         THEN StoredEntry(144, BlockSize, <<90>>, TYPE_REGULAR_FILE)
         ELSE Zeros(BlockSize)
    ELSE IF n = 20
    THEN StoredEntry(ROOT_INODE, SHORT_ENTRY, <<46>>, TYPE_DIRECTORY)
         \o StoredEntry(ROOT_INODE, SHORT_ENTRY, <<46, 46>>, TYPE_DIRECTORY)
         \o StoredEntry(0, BlockSize - 2 * SHORT_ENTRY, <<>>, 0)
    ELSE IF n = 21
    THEN StoredEntry(0, SHORT_ENTRY, <<120>>, TYPE_REGULAR_FILE)
         \o StoredEntry(SMALL_FILE_INODE, BlockSize - SHORT_ENTRY, <<102>>,
                        TYPE_REGULAR_FILE)
    ELSE IF n = 22
    THEN StoredEntry(BIG_DIR_INODE, SHORT_ENTRY, <<103>>, TYPE_DIRECTORY)
         \o StoredEntry(BIG_FILE_INODE, BlockSize - SHORT_ENTRY, <<104>>,
                        TYPE_REGULAR_FILE)
    ELSE IF n = 113
    THEN StoredEntry(0, SHORT_ENTRY, <<120>>, TYPE_REGULAR_FILE)
         \o StoredEntry(1013, BlockSize - SHORT_ENTRY, BigName(13), TYPE_REGULAR_FILE)
    ELSE IF n >= 100 /\ n < 100 + ManyBlocks
    THEN StoredEntry(1000 + n - 100, BlockSize, BigName(n - 100), TYPE_REGULAR_FILE)
    ELSE IF n = 30 \/ n = 31 THEN FileBlock(n - 30)
    ELSE IF n >= 200 /\ n < 200 + ManyBlocks THEN FileBlock(n - 200)
    ELSE IF n = 40 THEN FileBlock(0)
    ELSE IF n = 41 THEN FileBlock(2)
    ELSE IF n = 50
    THEN PtrBlock([i \in 1..num_ptrs_per_block |-> 100 + INODE_DIRECT_PTR_COUNT + i - 1])
    ELSE IF n = 51 THEN PtrBlock(<<52>>)
    ELSE IF n = 52
    THEN PtrBlock(<<100 + ManyBlocks - 2, 100 + ManyBlocks - 1>>)
    ELSE IF n = 60
    THEN PtrBlock([i \in 1..num_ptrs_per_block |-> 200 + INODE_DIRECT_PTR_COUNT + i - 1])
    ELSE IF n = 61 THEN PtrBlock(<<62>>)
    ELSE IF n = 62
    THEN PtrBlock(<<200 + ManyBlocks - 2, 200 + ManyBlocks - 1>>)
    ELSE Zeros(BlockSize)

\* The first pointers of an inode, then zeros
Direct(ptrs) ==
    [i \in 1..INODE_DIRECT_PTR_COUNT |-> IF i <= Len(ptrs) THEN ptrs[i] ELSE 0]

InodeOf(is_dir, size_low, direct_pointers, singly, doubly, triply) ==
    [is_dir |-> is_dir, size_low |-> size_low, direct_pointers |-> direct_pointers,
     singly_indirect_pointer |-> singly, doubly_indirect_pointer |-> doubly,
     triply_indirect_pointer |-> triply]

\* Ext2Parser::get_inode: the inode table of the image
get_inode(img, inode) ==
    IF inode = ROOT_INODE
    THEN InodeOf(TRUE, 3 * BlockSize, Direct(<<20, 21, 22>>), 0, 0, 0)
    ELSE IF inode = BIG_DIR_INODE
    THEN InodeOf(TRUE, ManyBlocks * BlockSize,
                 Direct([i \in 1..INODE_DIRECT_PTR_COUNT |-> 100 + i - 1]), 50, 51, 0)
    ELSE IF inode = SMALL_FILE_INODE
    THEN InodeOf(FALSE, BlockSize + 8, Direct(<<30, 31>>), 0, 0, 0)
    ELSE IF inode = BIG_FILE_INODE
    THEN InodeOf(FALSE, ManyBlocks * BlockSize - 5,
                 Direct([i \in 1..INODE_DIRECT_PTR_COUNT |-> 200 + i - 1]), 60, 61, 0)
    ELSE InodeOf(FALSE, 3 * BlockSize, Direct(<<40, 0, 41>>), 0, 0, 0)

\* The byte at an address of raw_bytes
RawByte(img, addr) == Block(img, addr \div BlockSize)[(addr % BlockSize) + 1]

\* A little endian number of n bytes read at an address of raw_bytes
RECURSIVE Le(_, _, _)
Le(img, addr, n) ==
    IF n = 0 THEN 0 ELSE RawByte(img, addr) + 256 * Le(img, addr + 1, n - 1)

\* Ext2Parser::get_ptrs_block
get_ptrs_block(img, block) ==
    [i \in 1..num_ptrs_per_block |-> Le(img, block * BlockSize + (i - 1) * PTR_SIZE,
                                        PTR_SIZE)]

\* The pointers of ptrs from i on that come before the first zero
RECURSIVE UntilZero(_, _)
UntilZero(ptrs, i) ==
    IF i > Len(ptrs) \/ ptrs[i] = 0 THEN <<>>
    ELSE <<ptrs[i]>> \o UntilZero(ptrs, i + 1)

\* A run of blocks the callback is given one after the other; a Break of the
\* callback ends the run, and the whole iteration too when ends_all
Run(blocks, ends_all) == [blocks |-> blocks, ends_all |-> ends_all]

\* Ext2Parser::for_each_indirect_block: the callback gets the blocks before
\* the first zero pointer, and a Break only returns from this function.  A
\* block of pointers that is not in the image makes get_block panic, as the
\* run of that one block does.
for_each_indirect_block(img, block) ==
    IF block >= NumBlocks THEN Run(<<block>>, FALSE)
    ELSE Run(UntilZero(get_ptrs_block(img, block), 1), FALSE)

\* Ext2Parser::for_each_doubly_indirect_block from pointer i on: one run for
\* each pointer before the first zero
RECURSIVE for_each_doubly_indirect_block(_, _, _)
for_each_doubly_indirect_block(img, block, i) ==
    IF block >= NumBlocks THEN <<Run(<<block>>, FALSE)>>
    ELSE IF i > num_ptrs_per_block \/ get_ptrs_block(img, block)[i] = 0 THEN <<>>
    ELSE <<for_each_indirect_block(img, get_ptrs_block(img, block)[i])>>
         \o for_each_doubly_indirect_block(img, block, i + 1)

\* Ext2Parser::for_each_triply_indirect_block from pointer i on
RECURSIVE for_each_triply_indirect_block(_, _, _)
for_each_triply_indirect_block(img, block, i) ==
    IF block >= NumBlocks THEN <<Run(<<block>>, FALSE)>>
    ELSE IF i > num_ptrs_per_block \/ get_ptrs_block(img, block)[i] = 0 THEN <<>>
    ELSE for_each_doubly_indirect_block(img, get_ptrs_block(img, block)[i], 1)
         \o for_each_triply_indirect_block(img, block, i + 1)

\* Ext2Parser::for_each_data_block: the runs of blocks the callback is given.
\* The direct pointers are passed to get_block untested, all twelve of them;
\* only a Break among them returns from the iteration.
for_each_data_block(img, inode) ==
    <<Run(get_inode(img, inode).direct_pointers, TRUE),
      for_each_indirect_block(img, get_inode(img, inode).singly_indirect_pointer)>>
        \o for_each_doubly_indirect_block(
               img, get_inode(img, inode).doubly_indirect_pointer, 1)
        \o for_each_triply_indirect_block(
               img, get_inode(img, inode).triply_indirect_pointer, 1)

\* What a callback returns: its state after the block, Break or Continue,
\* and whether it panicked
Decision(state, break, panic) == [state |-> state, break |-> break, panic |-> panic]

\* The DirectoryEntry at curr_offset of a block
DirectoryEntry(img, block, curr_offset) ==
    [inode |-> Le(img, block * BlockSize + curr_offset, 4),
     size |-> Le(img, block * BlockSize + curr_offset + 4, 2),
     name_length |-> RawByte(img, block * BlockSize + curr_offset + 6),
     type_indicator |-> RawByte(img, block * BlockSize + curr_offset + 7)]

\* The bytes of the name of the entry at curr_offset
Filename(img, block, curr_offset, name_length) ==
    [i \in 1..name_length |->
        RawByte(img, block * BlockSize + curr_offset + DIR_ENTRY_HEADER_SIZE + i - 1)]

\* The slice of the name lies in the block and from_utf8 accepts it
FilenameOk(img, block, curr_offset, name_length) ==
    /\ curr_offset + DIR_ENTRY_HEADER_SIZE + name_length <= BlockSize
    /\ \A i \in 1..name_length :
           Filename(img, block, curr_offset, name_length)[i] < 128

\* The closure of for_each_directory_entry on one block from curr_offset on,
\* with a callback that adds the entry to `visited` and returns Continue
RECURSIVE entries_closure(_, _, _, _)
entries_closure(img, block, curr_offset, visited) ==
    IF ~(curr_offset < BlockSize) THEN Decision(visited, FALSE, FALSE)
    ELSE Then(DirectoryEntry(img, block, curr_offset), LAMBDA dir_entry :
        IF dir_entry.size = 0 THEN Decision(visited, TRUE, FALSE)
        ELSE IF dir_entry.inode # 0
        THEN IF ~FilenameOk(img, block, curr_offset, dir_entry.name_length)
             THEN Decision(visited, TRUE, TRUE)
             ELSE entries_closure(img, block, curr_offset + dir_entry.size,
                      Append(visited,
                             DirEntry(dir_entry.inode,
                                      Filename(img, block, curr_offset,
                                               dir_entry.name_length),
                                      dir_entry.type_indicator)))
        ELSE entries_closure(img, block, curr_offset + dir_entry.size, visited))

\* The state of the closure of get_next_directory_entry
NextState(opaque_offset, total_offset, result) ==
    [opaque_offset |-> opaque_offset, total_offset |-> total_offset,
     result |-> result]

\* The closure of get_next_directory_entry on one block from curr_offset on
RECURSIVE next_closure(_, _, _, _)
next_closure(img, block, curr_offset, s) ==
    IF ~(curr_offset < BlockSize) THEN Decision(s, FALSE, FALSE)
    ELSE Then(DirectoryEntry(img, block, curr_offset), LAMBDA dir_entry :
        IF dir_entry.size = 0 THEN Decision(s, TRUE, FALSE)
        ELSE IF s.total_offset = s.opaque_offset
        THEN IF dir_entry.inode = 0
             THEN next_closure(img, block, curr_offset + dir_entry.size,
                      NextState(s.opaque_offset + dir_entry.size,
                                s.total_offset + dir_entry.size, s.result))
             ELSE IF ~FilenameOk(img, block, curr_offset, dir_entry.name_length)
             THEN Decision(s, TRUE, TRUE)
             ELSE Decision(
                      NextState(s.opaque_offset, s.total_offset,
                          NextEntry(TRUE, s.total_offset + dir_entry.size,
                              DirEntry(dir_entry.inode,
                                       Filename(img, block, curr_offset,
                                                dir_entry.name_length),
                                       dir_entry.type_indicator))),
                      TRUE, FALSE)
        ELSE IF s.total_offset > s.opaque_offset THEN Decision(s, TRUE, FALSE)
        ELSE next_closure(img, block, curr_offset + dir_entry.size,
                 NextState(s.opaque_offset, s.total_offset + dir_entry.size,
                           s.result)))

\* The state of the closure of get_contents_with_offset: the arguments, the
\* two counters and the bytes written to out_buffer
ContentsState(file_size, buffer_len, offset, total_read, data_offset, out) ==
    [file_size |-> file_size, buffer_len |-> buffer_len, offset |-> offset,
     total_read |-> total_read, data_offset |-> data_offset, out |-> out]

\* The closure of get_contents_with_offset from the test of the offset on,
\* block_length being known.  The bytes copied are the first size_left bytes
\* of the block: copy_from_slice(&data_block[..size_left]).
contents_block(img, block, s, block_length) ==
    IF s.offset < s.data_offset + block_length
    THEN Then(IF s.offset > s.data_offset THEN s.offset - s.data_offset ELSE 0,
              LAMBDA block_offset :
         Then(Min(block_length - block_offset, s.buffer_len - s.total_read),
              LAMBDA size_left :
         Then([s EXCEPT !.total_read = @ + size_left,
                        !.out = @ \o [i \in 1..size_left |->
                                         RawByte(img, block * BlockSize + i - 1)]],
              LAMBDA copied :
             IF copied.total_read = s.buffer_len THEN Decision(copied, TRUE, FALSE)
             ELSE Decision([copied EXCEPT !.data_offset = @ + BlockSize],
                           copied.data_offset + BlockSize >= s.file_size, FALSE))))
    ELSE Decision([s EXCEPT !.data_offset = @ + BlockSize],
                  s.data_offset + BlockSize >= s.file_size, FALSE)

\* The closure of get_contents_with_offset on one block.  file_size -
\* data_offset is a subtraction of usize: below zero it panics in a build
\* with overflow checks and wraps to a length beyond the block in one without.
contents_closure(img, block, s, checks) ==
    IF s.data_offset > s.file_size
    THEN IF checks THEN Decision(s, TRUE, TRUE)
         ELSE contents_block(img, block, s, BlockSize)
    ELSE contents_block(img, block, s, Min(BlockSize, s.file_size - s.data_offset))

\* The callback of kind `kind` on one block; get_block panics on a block
\* that is not in the image
callback(kind, img, block, s, checks) ==
    IF block >= NumBlocks THEN Decision(s, TRUE, TRUE)
    ELSE IF kind = "blocks" THEN Decision(Append(s, block), FALSE, FALSE)
    ELSE IF kind = "entries" THEN entries_closure(img, block, 0, s)
    ELSE IF kind = "next" THEN next_closure(img, block, 0, s)
    ELSE contents_closure(img, block, s, checks)

\* The iteration of for_each_data_block from block b of run r on, with the
\* callback of kind `kind`: the state of the callback at the end
RECURSIVE iterate(_, _, _, _, _, _, _)
iterate(kind, img, runs, r, b, s, checks) ==
    IF r > Len(runs) THEN Decision(s, FALSE, FALSE)
    ELSE IF b > Len(runs[r].blocks) THEN iterate(kind, img, runs, r + 1, 1, s, checks)
    ELSE Then(callback(kind, img, runs[r].blocks[b], s, checks), LAMBDA d :
        IF d.panic THEN d
        ELSE IF d.break
        THEN IF runs[r].ends_all THEN d
             ELSE iterate(kind, img, runs, r + 1, 1, d.state, checks)
        ELSE iterate(kind, img, runs, r, b + 1, d.state, checks))

\* for_each_data_block with a callback that returns Continue: the blocks the
\* callback is given
data_blocks(img, inode) ==
    iterate("blocks", img, for_each_data_block(img, inode), 1, 1, <<>>, FALSE)

\* Ext2Parser::for_each_directory_entry with a callback that returns
\* Continue: the entries the callback is given
for_each_directory_entry(img, inode) ==
    iterate("entries", img, for_each_data_block(img, inode), 1, 1, <<>>, FALSE)

\* Ext2Parser::get_next_directory_entry on the blocks of the image
next_directory_entry(img, inode, opaque_offset) ==
    iterate("next", img, for_each_data_block(img, inode), 1, 1,
            NextState(opaque_offset, 0, NextEntry(FALSE, 0, DirEntry(0, <<>>, 0))),
            FALSE)

\* Ext2Parser::get_contents_with_offset on the blocks of the image
contents_with_offset(img, inode, buffer_len, offset, checks) ==
    IF buffer_len = 0
    THEN Decision(ContentsState(0, 0, offset, 0, 0, <<>>), FALSE, FALSE)
    ELSE iterate("contents", img, for_each_data_block(img, inode), 1, 1,
                 ContentsState(get_inode(img, inode).size_low, buffer_len, offset,
                               0, 0, <<>>),
                 checks)

\* ------------------------------------------------------------------------
\* The ext2 parser: state machine
\* ------------------------------------------------------------------------

Images == {"zero_boot", "boot_code"}

DirectoryInodes == {ROOT_INODE, BIG_DIR_INODE}

FileInodes == {SMALL_FILE_INODE, BIG_FILE_INODE}

BufferLens == {0, 3, BlockSize, BlockSize + 5, (ManyBlocks + 1) * BlockSize}

Offsets(inode) ==
    {0, 1, BlockSize, BlockSize + 3, get_inode("zero_boot", inode).size_low - 1,
     get_inode("zero_boot", inode).size_low,
     get_inode("zero_boot", inode).size_low + BlockSize + 1}

\* Ext2Parser::parse has accepted the image, in a build with or without
\* overflow checks
Ext2Init ==
    /\ KernelIdle
    /\ overflow_checks \in BOOLEAN
    /\ image \in Images
    /\ ext_call = [kind |-> "none"]
    /\ interrupt_flag = FALSE
    /\ lock_cells = <<>>
    /\ guards = {}
    /\ cells = <<>>
    /\ sync_call = [kind |-> "none"]
    /\ idt = <<>>
    /\ in_service = {}
    /\ int_call = [kind |-> "none"]

Ext2Unchanged ==
    /\ UNCHANGED <<image, interrupt_flag, lock_cells, guards, cells, sync_call, idt,
                   in_service, int_call>>
    /\ KernelUnchanged

\* for_each_data_block(inode, callback) with a callback that returns Continue
ForEachDataBlock ==
    /\ \E inode \in DirectoryInodes \cup FileInodes \cup {SPARSE_FILE_INODE} :
         \E d \in {data_blocks(image, inode)} :
             ext_call' = [kind |-> "blocks", inode |-> inode, panic |-> d.panic,
                          result |-> d.state]
    /\ Ext2Unchanged

\* for_each_directory_entry(inode, callback) with a callback that returns
\* Continue
ForEachDirectoryEntry ==
    /\ \E inode \in DirectoryInodes :
         \E d \in {for_each_directory_entry(image, inode)} :
             ext_call' = [kind |-> "entries", inode |-> inode, panic |-> d.panic,
                          result |-> d.state]
    /\ Ext2Unchanged

\* The call record of get_next_directory_entry(inode, opaque_offset);
\* `returned` are the entries the calls since opaque_offset 0 returned
NextCall(inode, opaque_offset, returned) ==
    LET d == next_directory_entry(image, inode, opaque_offset)
    IN  [kind |-> "next", inode |-> inode, opaque_offset |-> opaque_offset,
         panic |-> d.panic, result |-> d.state.result,
         returned |-> IF d.state.result.some /\ ~d.panic
                      THEN Append(returned, d.state.result.entry)
                      ELSE returned]

\* get_next_directory_entry(inode, 0)
FirstDirectoryEntry ==
    /\ \E inode \in DirectoryInodes : ext_call' = NextCall(inode, 0, <<>>)
    /\ Ext2Unchanged

\* get_next_directory_entry(inode, next_opaque_offset) with the offset the
\* call before returned
NextDirectoryEntry ==
    /\ ext_call.kind = "next"
    /\ ~ext_call.panic
    /\ ext_call.result.some
    /\ Len(ext_call.returned) < 2 * ManyBlocks
    /\ ext_call' = NextCall(ext_call.inode, ext_call.result.next_opaque_offset,
                            ext_call.returned)
    /\ Ext2Unchanged

\* get_contents_with_offset(inode, out_buffer, offset)
GetContents ==
    /\ \E inode \in FileInodes, buffer_len \in BufferLens :
         \E offset \in Offsets(inode) :
             \E d \in {contents_with_offset(image, inode, buffer_len, offset,
                                            overflow_checks)} :
                 ext_call' = [kind |-> "contents", inode |-> inode,
                              buffer_len |-> buffer_len, offset |-> offset,
                              panic |-> d.panic, result |-> d.state.total_read,
                              out |-> d.state.out]
    /\ Ext2Unchanged

Ext2Next ==
    \/ ForEachDataBlock
    \/ ForEachDirectoryEntry
    \/ FirstDirectoryEntry
    \/ NextDirectoryEntry
    \/ GetContents

Ext2Spec == Ext2Init /\ [][Ext2Next]_vars

\* ---------------------------------------------------------------------------
\* Ext2Parser::parse: the block group counts of the superblock
\* ---------------------------------------------------------------------------

\* The largest value of a superblock field
MaxCount == 4

SuperBlockCounts == 0..MaxCount

\* None of an Option<u32>
NoCount == [some |-> FALSE]

\* fn div_ceil(x: u32, y: u32) -> Option<u32>
div_ceil(x, y) ==
    IF y = 0 THEN NoCount
    ELSE IF x = 0 THEN [some |-> TRUE, value |-> 0]
    ELSE [some |-> TRUE, value |-> 1 + ((x - 1) \div y)]

\* The sanity check of parse on the block group count: `?` returns None when
\* a div_ceil does, and so does a difference of the two counts
block_groups_agree(super_block) ==
    LET block_group_count ==
            div_ceil(super_block.block_count, super_block.num_blocks_in_block_group)
        block_group_count_alt ==
            div_ceil(super_block.inode_count, super_block.num_blocks_in_block_group)
    IN  /\ block_group_count.some
        /\ block_group_count_alt.some
        /\ block_group_count.value = block_group_count_alt.value

\* An image whose superblock passed the checks before the block group count
ParseInit ==
    /\ KernelIdle
    /\ overflow_checks = FALSE
    /\ image = "superblock"
    /\ \E block_count \in SuperBlockCounts, num_blocks_in_block_group \in SuperBlockCounts,
          inode_count \in SuperBlockCounts, num_inodes_in_block_group \in SuperBlockCounts :
         ext_call = [kind |-> "superblock",
                     super_block |-> [block_count |-> block_count,
                                      num_blocks_in_block_group |-> num_blocks_in_block_group,
                                      inode_count |-> inode_count,
                                      num_inodes_in_block_group |-> num_inodes_in_block_group]]
    /\ interrupt_flag = FALSE
    /\ lock_cells = <<>>
    /\ guards = {}
    /\ cells = <<>>
    /\ sync_call = [kind |-> "none"]
    /\ idt = <<>>
    /\ in_service = {}
    /\ int_call = [kind |-> "none"]

\* Ext2Parser::parse(bytes) up to the comparison of the block group counts
Parse ==
    /\ ext_call.kind = "superblock"
    /\ ext_call' = [kind |-> "parse", super_block |-> ext_call.super_block,
                    accepted |-> block_groups_agree(ext_call.super_block)]
    /\ Ext2Unchanged

ParseNext == Parse

ParseSpec == ParseInit /\ [][ParseNext]_vars

\* ---------------------------------------------------------------------------
\* shared/lock_cell: LockCell on one processor
\* ---------------------------------------------------------------------------

\* The number of LockCells
NumLocks == 3

\* The number of calls of lock() in a behaviour
MaxLockCalls == 4

\* LockCell::new(val)
LockCell_new == [available_ticket |-> 0, owner_ticket |-> 0, interruptable |-> TRUE]

\* LockCell::new_non_interruptable(val)
LockCell_new_non_interruptable ==
    [available_ticket |-> 0, owner_ticket |-> 0, interruptable |-> FALSE]

\* LockCellGuard { lock, unmask_interrupts } of the holder of `ticket`
LockCellGuard(lock, ticket, unmask_interrupts) ==
    [lock |-> lock, ticket |-> ticket, unmask_interrupts |-> unmask_interrupts]

\* The cells are constructed and no lock() was called; interrupts are
\* unmasked or masked
LockInit ==
    /\ KernelIdle
    /\ overflow_checks = FALSE
    /\ image = "none"
    /\ ext_call = [kind |-> "none"]
    /\ interrupt_flag \in BOOLEAN
    /\ lock_cells \in [1..NumLocks -> {LockCell_new, LockCell_new_non_interruptable}]
    /\ guards = {}
    /\ cells = <<>>
    /\ sync_call = [kind |-> "none", calls |-> 0, spinning |-> FALSE, pre_if |-> FALSE]
    /\ idt = <<>>
    /\ in_service = {}
    /\ int_call = [kind |-> "none"]

LockUnchanged ==
    /\ UNCHANGED <<image, ext_call, cells, idt, in_service, int_call>>
    /\ KernelUnchanged

\* let unmask_interrupts = if self.interruptable && cpu::get_if() { cli; true }
\* else { false }
lock_unmask(cell, flag) == cell.interruptable /\ flag

\* lock_cells[i].lock(): the interrupts are masked if need be, the ticket is
\* taken, and the call returns the guard when the ticket is the owner's; it
\* spins for ever when the cell is held, as no other processor can release it
Lock ==
    /\ ~sync_call.spinning
    /\ sync_call.calls < MaxLockCalls
    /\ \E i \in 1..NumLocks :
         LET unmask_interrupts == lock_unmask(lock_cells[i], interrupt_flag)
             ticket == lock_cells[i].available_ticket
             owner == ticket = lock_cells[i].owner_ticket
         IN  /\ interrupt_flag' = IF unmask_interrupts THEN FALSE ELSE interrupt_flag
             /\ lock_cells' = [lock_cells EXCEPT ![i].available_ticket = @ + 1]
             /\ guards' = IF owner
                          THEN guards \cup {LockCellGuard(i, ticket, unmask_interrupts)}
                          ELSE guards
             /\ sync_call' = [kind |-> "lock", calls |-> sync_call.calls + 1,
                              spinning |-> ~owner,
                              pre_if |-> IF guards = {} THEN interrupt_flag
                                         ELSE sync_call.pre_if]
    /\ LockUnchanged

\* drop(guard) of a guard that is held, in any order
Drop ==
    /\ ~sync_call.spinning
    /\ \E guard \in guards :
         /\ lock_cells' = [lock_cells EXCEPT ![guard.lock].owner_ticket = @ + 1]
         /\ interrupt_flag' = IF guard.unmask_interrupts THEN TRUE ELSE interrupt_flag
         /\ guards' = guards \ {guard}
         /\ sync_call' = [sync_call EXCEPT !.kind = "drop"]
    /\ LockUnchanged

LockNext ==
    \/ Lock
    \/ Drop

LockSpec == LockInit /\ [][LockNext]_vars

\* ---------------------------------------------------------------------------
\* shared/exclusive_cell: ExclusiveCell
\* ---------------------------------------------------------------------------

\* The number of ExclusiveCells
NumCells == 2

\* The largest value stored in a cell
MaxValue == 1

\* The number of calls of acquire() in a behaviour
MaxAcquires == 3

CellValues == 0..MaxValue

\* ExclusiveCell::new(val)
ExclusiveCell_new(val) == [value |-> val, in_use |-> FALSE]

\* An acquire that does not look at in_use
acquire_shared(cell) ==
    [already_in_use |-> FALSE, cell |-> [cell EXCEPT !.in_use = TRUE]]

\* let already_in_use = self.in_use.swap(true, Ordering::SeqCst)
acquire(cell) ==
    [already_in_use |-> cell.in_use, cell |-> [cell EXCEPT !.in_use = TRUE]]

\* The cells are constructed and no acquire() was called
CellInit ==
    /\ KernelIdle
    /\ overflow_checks = FALSE
    /\ image = "none"
    /\ ext_call = [kind |-> "none"]
    /\ interrupt_flag = FALSE
    /\ lock_cells = <<>>
    /\ guards = {}
    /\ cells \in [1..NumCells -> {ExclusiveCell_new(val) : val \in CellValues}]
    /\ sync_call = [kind |-> "none", calls |-> 0, panic |-> FALSE, cell |-> 0,
                    was_held |-> FALSE, observed |-> 0,
                    written |-> [i \in 1..NumCells |-> cells[i].value],
                    initial |-> [i \in 1..NumCells |-> cells[i].value]]
    /\ idt = <<>>
    /\ in_service = {}
    /\ int_call = [kind |-> "none"]

CellUnchanged ==
    /\ UNCHANGED <<image, ext_call, interrupt_flag, lock_cells, idt, in_service, int_call>>
    /\ KernelUnchanged

\* *cells[i].acquire(): panics when the cell is in use, and returns a guard
\* through which the value is read otherwise
Acquire ==
    /\ ~sync_call.panic
    /\ sync_call.calls < MaxAcquires
    /\ \E i \in 1..NumCells :
         \E r \in {acquire(cells[i])} :
             /\ cells' = [cells EXCEPT ![i] = r.cell]
             /\ guards' = IF r.already_in_use THEN guards
                          ELSE guards \cup {[cell |-> i, id |-> sync_call.calls]}
             /\ sync_call' = [sync_call EXCEPT
                                 !.kind = "acquire", !.calls = @ + 1,
                                 !.panic = r.already_in_use, !.cell = i,
                                 !.was_held = \E guard \in guards : guard.cell = i,
                                 !.observed = cells[i].value]
    /\ CellUnchanged

\* *guard = val, through deref_mut of a guard that is held
Write ==
    /\ ~sync_call.panic
    /\ \E guard \in guards, val \in CellValues :
         /\ cells' = [cells EXCEPT ![guard.cell].value = val]
         /\ sync_call' = [sync_call EXCEPT !.kind = "write", !.cell = guard.cell,
                                           !.written[guard.cell] = val]
    /\ UNCHANGED guards
    /\ CellUnchanged

\* drop(guard) of a guard that is held
Release ==
    /\ ~sync_call.panic
    /\ \E guard \in guards :
         /\ cells' = [cells EXCEPT ![guard.cell].in_use = FALSE]
         /\ guards' = guards \ {guard}
         /\ sync_call' = [sync_call EXCEPT !.kind = "drop", !.cell = guard.cell]
    /\ CellUnchanged

CellNext ==
    \/ Acquire
    \/ Write
    \/ Release

CellSpec == CellInit /\ [][CellNext]_vars

\* ---------------------------------------------------------------------------
\* kernel/interrupts.rs and interrupts/pic_8259a.rs: the IDT and the handlers
\* ---------------------------------------------------------------------------

IDT_ENTRIES == 256

KERNEL_CS_SELECTOR == 8

\* The vector of the system call gate, idt[0x67]
SYSCALL_VECTOR == 103

\* The vectors of #NP and #GP
NP_VECTOR == 11

GP_VECTOR == 13

MASTER_PIC_CMD_PORT == 32

SLAVE_PIC_CMD_PORT == 160

PIC_SLAVE_IRQ == 2

PIC_SPECIFIC_EOI_CMD == 3 * 32

PIC_READ_REGISTER_CMD == 3 * 8

PIC_READ_IS_REGISTER == 3

PIC_IRQ_OFFSET == 32

\* The address of interrupt_<vector>_handler
HandlerBase == 1048576

HandlerAddr(vector) == HandlerBase + 65536 + vector * 16

\* An IDTEntry(u64) as its four 16 bit words, lowest first
IDTEntry(offset_low, segment, flags, offset_high) ==
    [offset_low |-> offset_low, segment |-> segment, flags |-> flags,
     offset_high |-> offset_high]

\* IDTEntry(0)
ZeroEntry == IDTEntry(0, 0, 0, 0)

\* match typ { InterruptGate => 0, TrapGate => 1 }
type_bits(typ) == IF typ = "TrapGate" THEN 1 ELSE 0

\* A descriptor whose privilege field is always 0
IDTEntry_new_ring0(segment, entry_offset, privilege, protected_mode, typ) ==
    IDTEntry(entry_offset % 65536, segment,
             32768 + (IF protected_mode THEN 2048 ELSE 0) + 3 * 512
                 + type_bits(typ) * 256,
             entry_offset \div 65536)

\* IDTEntry::new: low_dword = segment << 16 | offset & 0xFFFF, high_dword =
\* offset & 0xFFFF0000 | 1 << 15 | privilege << 13 | protected_mode << 11
\* | 3 << 9 | type_bits << 8
IDTEntry_new(segment, entry_offset, privilege, protected_mode, typ) ==
    IDTEntry(entry_offset % 65536, segment,
             32768 + privilege * 8192 + (IF protected_mode THEN 2048 ELSE 0) + 3 * 512
                 + type_bits(typ) * 256,
             entry_offset \div 65536)

\* The fields of a gate descriptor as the processor reads them
GatePresent(entry) == (entry.flags \div 32768) % 2 = 1

GateDpl(entry) == (entry.flags \div 8192) % 4

GateType(entry) == (entry.flags \div 256) % 32

INTERRUPT_GATE_32 == 14

TRAP_GATE_32 == 15

\* The exception vectors that init gives a gate
ExceptionVectors == (0..14) \cup (16..21)

\* The vectors of the IRQs of the two PICs
IrqVectors == PIC_IRQ_OFFSET..(PIC_IRQ_OFFSET + 15)

\* The table that interrupts::init fills in
init_idt ==
    [vector \in 0..(IDT_ENTRIES - 1) |->
        IF vector \in ExceptionVectors
        THEN IDTEntry_new(KERNEL_CS_SELECTOR, HandlerAddr(vector),
                          IF vector \in {3, 4} THEN 3 ELSE 0, TRUE, "InterruptGate")
        ELSE IF vector \in IrqVectors
        THEN IDTEntry_new(KERNEL_CS_SELECTOR, HandlerAddr(vector), 0, TRUE, "InterruptGate")
        ELSE IF vector = SYSCALL_VECTOR
        THEN IDTEntry_new(KERNEL_CS_SELECTOR, HandlerAddr(vector), 3, TRUE, "TrapGate")
        ELSE ZeroEntry]

\* cpu::out8(port, value)
Out8(port, value) == [port |-> port, value |-> value]

\* send_eoi(irq): the bytes written to the command ports
send_eoi(irq) ==
    IF irq >= 8
    THEN <<Out8(MASTER_PIC_CMD_PORT, PIC_SPECIFIC_EOI_CMD + PIC_SLAVE_IRQ),
           Out8(SLAVE_PIC_CMD_PORT, PIC_SPECIFIC_EOI_CMD + (irq - 8))>>
    ELSE <<Out8(MASTER_PIC_CMD_PORT, PIC_SPECIFIC_EOI_CMD + irq)>>

\* read_isr(): the bytes written to the command ports before the two reads
read_isr ==
    <<Out8(MASTER_PIC_CMD_PORT, PIC_READ_REGISTER_CMD + PIC_READ_IS_REGISTER),
      Out8(SLAVE_PIC_CMD_PORT, PIC_READ_REGISTER_CMD + PIC_READ_IS_REGISTER)>>

\* handle_spurious_irq(irq) when the in-service registers hold isr
handle_spurious_irq(irq, isr) ==
    IF irq # 7 /\ irq # 15 THEN [spurious |-> FALSE, out |-> <<>>]
    ELSE LET spurious == irq \notin isr
         IN  [spurious |-> spurious,
              out |-> read_isr \o (IF irq >= 8 /\ spurious THEN send_eoi(PIC_SLAVE_IRQ)
                                   ELSE <<>>)]

\* What a handler did: the device handler it ran, the bytes it wrote to the
\* PICs, and whether it panicked
Handled(device, out, spurious, panic) ==
    [device |-> device, out |-> out, spurious |-> spurious, panic |-> panic]

\* interrupt_handler(interrupt_number, error_code, eip)
interrupt_handler(interrupt_number, isr) ==
    IF interrupt_number >= PIC_IRQ_OFFSET /\ interrupt_number < PIC_IRQ_OFFSET + 8
    THEN LET irq == interrupt_number - PIC_IRQ_OFFSET
             s == handle_spurious_irq(irq, isr)
         IN  IF s.spurious THEN Handled("none", s.out, TRUE, FALSE)
             ELSE IF irq = 0 THEN Handled("pit", s.out \o send_eoi(irq), FALSE, FALSE)
             ELSE IF irq = 1 THEN Handled("keyboard", s.out \o send_eoi(irq), FALSE, FALSE)
             ELSE IF irq = 12 THEN Handled("none", s.out, FALSE, TRUE)
             ELSE Handled("println", s.out \o send_eoi(irq), FALSE, FALSE)
    ELSE Handled("none", <<>>, FALSE, TRUE)

\* The handler behind the gate of a vector: interrupt_103_handler calls
\* syscall_interrupt_handler, every other one interrupt_handler
gate_handler(vector, isr) ==
    IF vector = SYSCALL_VECTOR THEN Handled("syscall", <<>>, FALSE, FALSE)
    ELSE interrupt_handler(vector, isr)

\* The in-service bits that remain after the specific EOIs among the bytes
RECURSIVE AfterEoi(_, _)
AfterEoi(isr, out) ==
    IF out = <<>> THEN isr
    ELSE LET o == Head(out)
             level == o.value - PIC_SPECIFIC_EOI_CMD
         IN  AfterEoi(IF level \in 0..7
                      THEN isr \ {IF o.port = SLAVE_PIC_CMD_PORT THEN level + 8 ELSE level}
                      ELSE isr,
                      Tail(out))

\* The kernel before interrupts::init(): static IDT = [IDTEntry(0); 256]
IntInit ==
    /\ KernelIdle
    /\ overflow_checks = FALSE
    /\ image = "none"
    /\ ext_call = [kind |-> "none"]
    /\ interrupt_flag = FALSE
    /\ lock_cells = <<>>
    /\ guards = {}
    /\ cells = <<>>
    /\ sync_call = [kind |-> "none"]
    /\ idt = [vector \in 0..(IDT_ENTRIES - 1) |-> ZeroEntry]
    /\ in_service = {}
    /\ int_call = [kind |-> "none", panic |-> FALSE]

IntUnchanged ==
    /\ UNCHANGED <<image, ext_call, lock_cells, guards, cells, sync_call>>
    /\ KernelUnchanged

\* interrupts::init(): fills in and loads the IDT, and unmasks interrupts
InterruptsInit ==
    /\ int_call.kind = "none"
    /\ idt' = init_idt
    /\ interrupt_flag' = TRUE
    /\ int_call' = [kind |-> "init", panic |-> FALSE]
    /\ UNCHANGED in_service
    /\ IntUnchanged

\* `int vector` executed at privilege level cpl: the processor enters the
\* gate when its DPL allows, and raises #GP or #NP otherwise
SoftwareInterrupt ==
    /\ int_call.kind # "none"
    /\ ~int_call.panic
    /\ \E vector \in 0..(IDT_ENTRIES - 1), cpl \in {0, 3} :
         LET gate == idt[vector]
             fault ==
                 IF GateDpl(gate) < cpl THEN GP_VECTOR
                 ELSE IF GateType(gate) \notin {INTERRUPT_GATE_32, TRAP_GATE_32}
                 THEN GP_VECTOR
                 ELSE IF ~GatePresent(gate) THEN NP_VECTOR
                 ELSE -1
             h == gate_handler(IF fault = -1 THEN vector ELSE fault, in_service)
         IN  /\ int_call' = [kind |-> "int", vector |-> vector, cpl |-> cpl,
                             invoked |-> fault = -1,
                             device |-> h.device, out |-> h.out, panic |-> h.panic]
             /\ in_service' = AfterEoi(in_service, h.out)
    /\ UNCHANGED <<idt, interrupt_flag>>
    /\ IntUnchanged

\* A PIC raises irq: a real one with its in-service bit set, a spurious IRQ 7
\* or 15 without it; an IRQ of the slave sets the cascade bit of the master
HardwareIrq ==
    /\ int_call.kind # "none"
    /\ ~int_call.panic
    /\ \E irq \in 0..15, real \in BOOLEAN :
         /\ ~real => irq \in {7, 15}
         /\ LET isr == in_service \cup (IF real THEN {irq} ELSE {})
                           \cup (IF irq >= 8 THEN {PIC_SLAVE_IRQ} ELSE {})
                h == gate_handler(PIC_IRQ_OFFSET + irq, isr)
            IN  /\ int_call' = [kind |-> "irq", irq |-> irq, real |-> real,
                                device |-> h.device, out |-> h.out,
                                spurious |-> h.spurious, panic |-> h.panic]
                /\ in_service' = AfterEoi(isr, h.out)
    /\ UNCHANGED <<idt, interrupt_flag>>
    /\ IntUnchanged

IntNext ==
    \/ InterruptsInit
    \/ SoftwareInterrupt
    \/ HardwareIrq

IntSpec == IntInit /\ [][IntNext]_vars

\* ---------------------------------------------------------------------------
\* kernel/process.rs: Process::replace_with_elf and the user stack
\* ---------------------------------------------------------------------------

\* The bytes of the stack page that replace_with_elf writes (4096, scaled)
STACK_PAGE_BYTES == 40

\* The most strings in argv and in envp, and the longest string
MaxArgs == 2

MaxStrLen == 2

\* The bytes of the strings
StrBytes == {97, 98}

Strings == UNION {[1..n -> StrBytes] : n \in 0..MaxStrLen}

StringLists == UNION {[1..n -> Strings] : n \in 0..MaxArgs}

\* A byte of the page that was not written
UNWRITTEN == 0 - 1

\* u32::to_le_bytes(x)
to_le_bytes(x) ==
    <<x % 256, (x \div 256) % 256, (x \div 65536) % 256, (x \div 16777216) % 256>>

\* The stack page, the bytes pushed so far, and a panic of an index or of the
\* subtraction
StackState(page, stack_off, panic) ==
    [page |-> page, stack_off |-> stack_off, panic |-> panic]

\* push_on_stack!(x): start_off = 4096 - stack_off - x.len() underflows, or
\* the slice index fails, when x does not fit
push_on_stack(s, x) ==
    IF s.panic THEN s
    ELSE IF s.stack_off + Len(x) > STACK_PAGE_BYTES THEN StackState(s.page, s.stack_off, TRUE)
    ELSE LET start_off == STACK_PAGE_BYTES - s.stack_off - Len(x)
         IN  StackState([o \in DOMAIN s.page |->
                            IF o >= start_off /\ o < start_off + Len(x)
                            THEN x[o - start_off + 1] ELSE s.page[o]],
                        s.stack_off + Len(x), FALSE)

\* The pointer to the byte pushed last
StackPointer(s) == USER_STACK_VADDR + STACK_PAGE_BYTES - s.stack_off

\* The loop over the strings in the order given, the first one pushed first
RECURSIVE push_strings_forward(_, _, _, _)
push_strings_forward(s, strs, idx, ptrs) ==
    IF idx = Len(strs) THEN [s |-> s, ptrs |-> ptrs]
    ELSE LET pushed == push_on_stack(push_on_stack(s, <<0>>), strs[idx + 1])
         IN  push_strings_forward(pushed, strs, idx + 1,
                                  [ptrs EXCEPT ![idx + 2] = StackPointer(pushed)])

\* for (idx, str) in strs.iter().rev().enumerate() { push 0; push str;
\* ptrs[idx + 1] = USER_STACK_VADDR.0 + 4096 - stack_off }
RECURSIVE push_strings(_, _, _, _)
push_strings(s, strs, idx, ptrs) ==
    IF idx = Len(strs) THEN [s |-> s, ptrs |-> ptrs]
    ELSE LET pushed == push_on_stack(push_on_stack(s, <<0>>), strs[Len(strs) - idx])
         IN  push_strings(pushed, strs, idx + 1,
                          [ptrs EXCEPT ![idx + 2] = StackPointer(pushed)])

\* for ptr in ptrs { push_on_stack!(&u32::to_le_bytes(ptr)) }
RECURSIVE push_ptrs(_, _, _)
push_ptrs(s, ptrs, k) ==
    IF k > Len(ptrs) THEN s
    ELSE push_ptrs(push_on_stack(s, to_le_bytes(ptrs[k])), ptrs, k + 1)

\* replace_with_elf(elf, argv, envp) on the stack page that init_elf mapped,
\* with esp at its end: the page and esp it leaves
replace_with_elf(argv, envp) ==
    LET fresh == StackState([o \in 0..(STACK_PAGE_BYTES - 1) |-> UNWRITTEN], 0, FALSE)
        envs == push_strings(fresh, envp, 0, [k \in 1..(Len(envp) + 1) |-> 0])
        args == push_strings(envs.s, argv, 0, [k \in 1..(Len(argv) + 1) |-> 0])
        env_ptrs == push_ptrs(args.s, envs.ptrs, 1)
        envp_ptr == StackPointer(env_ptrs)
        arg_ptrs == push_ptrs(env_ptrs, args.ptrs, 1)
        argv_ptr == StackPointer(arg_ptrs)
        last == push_on_stack(push_on_stack(push_on_stack(arg_ptrs,
                    to_le_bytes(envp_ptr)), to_le_bytes(argv_ptr)), to_le_bytes(Len(argv)))
    IN  [page |-> last.page,
         esp |-> USER_STACK_VADDR + STACK_PAGE_BYTES - last.stack_off,
         panic |-> last.panic \/ ~(last.stack_off < STACK_PAGE_BYTES)]

\* syscall_execve has resolved argv and envp and parsed the ELF file
ExecInit ==
    /\ MachineIdle
    /\ overflow_checks = FALSE
    /\ image = "none"
    /\ ext_call = [kind |-> "none"]
    /\ interrupt_flag = FALSE
    /\ lock_cells = <<>>
    /\ guards = {}
    /\ cells = <<>>
    /\ sync_call = [kind |-> "none"]
    /\ idt = <<>>
    /\ in_service = {}
    /\ int_call = [kind |-> "none"]
    /\ \E argv \in StringLists, envp \in StringLists :
         user_stack = [kind |-> "args", argv |-> argv, envp |-> envp]
    /\ threads = <<>>
    /\ queue = [kind |-> "none"]

\* get_current_process().replace_with_elf(elf_parser, &argv, &envp)
ReplaceWithElf ==
    /\ user_stack.kind = "args"
    /\ \E r \in {replace_with_elf(user_stack.argv, user_stack.envp)} :
         user_stack' = [kind |-> "exec", argv |-> user_stack.argv,
                        envp |-> user_stack.envp, page |-> r.page, esp |-> r.esp,
                        panic |-> r.panic]
    /\ UNCHANGED <<image, ext_call, interrupt_flag, lock_cells, guards, cells, sync_call,
                   idt, in_service, int_call, threads, queue>>
    /\ MachineUnchanged

ExecNext == ReplaceWithElf

ExecSpec == ExecInit /\ [][ExecNext]_vars

\* ---------------------------------------------------------------------------
\* shared/lock_cell: callers on several processors contending for one LockCell
\* ---------------------------------------------------------------------------

\* The number of callers
NumCallers == 3

\* The number of values of a ticket counter (an AtomicUsize has 2^32, scaled);
\* more than the number of callers
TicketValues == 4

Callers == 1..NumCallers

\* A caller outside lock(), with the interrupt flag of its processor
Caller(interrupt_flag_of) ==
    [pc |-> "idle", ticket |-> 0, unmask_interrupts |-> FALSE,
     interrupt_flag |-> interrupt_flag_of]

\* A loop test that lets every ticket through
is_owner_any(cell, ticket) == TRUE

\* while ticket != self.owner_ticket.load(Ordering::SeqCst) { spin_loop() }:
\* the test that ends the loop
is_owner(cell, ticket) == ticket = cell.owner_ticket

\* A release that passes over the next ticket
advance_owner_twice(cell) ==
    [cell EXCEPT !.owner_ticket = (@ + 2) % TicketValues]

\* self.lock.owner_ticket.fetch_add(1, Ordering::SeqCst)
advance_owner(cell) ==
    [cell EXCEPT !.owner_ticket = (@ + 1) % TicketValues]

\* One LockCell and its callers, none of them in lock()
ContendInit ==
    /\ MachineIdle
    /\ overflow_checks = FALSE
    /\ image = "none"
    /\ ext_call = [kind |-> "none"]
    /\ interrupt_flag = FALSE
    /\ lock_cells \in {<<LockCell_new>>, <<LockCell_new_non_interruptable>>}
    /\ guards = {}
    /\ cells = <<>>
    /\ sync_call = [kind |-> "none", caller |-> 0, waiting |-> <<>>, in_order |-> TRUE]
    /\ idt = <<>>
    /\ in_service = {}
    /\ int_call = [kind |-> "none"]
    /\ user_stack = [kind |-> "none"]
    /\ threads \in [Callers -> {Caller(flag) : flag \in BOOLEAN}]
    /\ queue = [kind |-> "none"]

ContendUnchanged ==
    /\ UNCHANGED <<image, ext_call, interrupt_flag, cells, idt, in_service, int_call,
                   user_stack, queue>>
    /\ MachineUnchanged

\* The start of lock(): the caller masks the interrupts of its processor if
\* need be and draws its ticket with available_ticket.fetch_add(1)
TakeTicket(t) ==
    /\ threads[t].pc = "idle"
    /\ LET unmask_interrupts == lock_unmask(lock_cells[1], threads[t].interrupt_flag)
           ticket == lock_cells[1].available_ticket
       IN  /\ threads' = [threads EXCEPT
                             ![t] = [pc |-> "spin", ticket |-> ticket,
                                     unmask_interrupts |-> unmask_interrupts,
                                     interrupt_flag |->
                                         IF unmask_interrupts THEN FALSE
                                         ELSE threads[t].interrupt_flag]]
           /\ lock_cells' = [lock_cells EXCEPT
                                ![1].available_ticket = (@ + 1) % TicketValues]
           /\ sync_call' = [sync_call EXCEPT !.kind = "ticket", !.caller = t,
                                             !.waiting = Append(@, t)]
    /\ UNCHANGED guards
    /\ ContendUnchanged

\* The end of lock(): the loop sees the caller's ticket in owner_ticket and
\* the guard is returned
Spin(t) ==
    /\ threads[t].pc = "spin"
    /\ is_owner(lock_cells[1], threads[t].ticket)
    /\ threads' = [threads EXCEPT ![t].pc = "held"]
    /\ guards' = guards \cup {LockCellGuard(t, threads[t].ticket,
                                            threads[t].unmask_interrupts)}
    /\ sync_call' = [sync_call EXCEPT
                        !.kind = "lock", !.caller = t,
                        !.waiting = IF @ # <<>> THEN Tail(@) ELSE @,
                        !.in_order = @ /\ sync_call.waiting # <<>>
                                       /\ Head(sync_call.waiting) = t]
    /\ UNCHANGED lock_cells
    /\ ContendUnchanged

\* drop(guard) by the caller that holds it
DropGuard(t) ==
    /\ threads[t].pc = "held"
    /\ lock_cells' = [lock_cells EXCEPT ![1] = advance_owner(@)]
    /\ threads' = [threads EXCEPT
                      ![t].pc = "idle",
                      ![t].interrupt_flag = IF threads[t].unmask_interrupts THEN TRUE
                                            ELSE @]
    /\ guards' = {guard \in guards : guard.lock # t}
    /\ sync_call' = [sync_call EXCEPT !.kind = "drop", !.caller = t]
    /\ ContendUnchanged

ContendNext ==
    \E t \in Callers :
        \/ TakeTicket(t)
        \/ Spin(t)
        \/ DropGuard(t)

ContendSpec == ContendInit /\ [][ContendNext]_vars

\* Every caller keeps running: a loop whose test has become true ends, and a
\* holder drops its guard
ContendFairSpec ==
    /\ ContendSpec
    /\ \A t \in Callers : WF_vars(Spin(t)) /\ WF_vars(DropGuard(t))

\* ------------------------------------------------------------------------
\* shared/producer_consumer: one producer and one consumer on the queue
\* ------------------------------------------------------------------------

\* the const parameter SIZE of the queue
SIZE == 2

\* the items are 1, 2, .. in the order of the produce calls; at most MaxItems
\* of them are produced
MaxItems == 3

\* a MaybeUninit slot nothing was written to
UNINIT == 0 - 1

\* ProducerConsumer::new.  `before` is what a slot held before the latest
\* write to it.
ProducerConsumer_new ==
    [kind |-> "queue",
     slots |-> [i \in 0..(SIZE - 1) |-> UNINIT],
     before |-> [i \in 0..(SIZE - 1) |-> UNINIT],
     produce_idx |-> 0, consume_idx |-> 0, uncosumed_count |-> 0,
     written |-> <<>>, consumed |-> <<>>, raced |-> FALSE]

QueueInit ==
    /\ MachineIdle
    /\ overflow_checks = FALSE
    /\ image = "none"
    /\ ext_call = [kind |-> "none"]
    /\ interrupt_flag = FALSE
    /\ lock_cells = <<>>
    /\ guards = {}
    /\ cells = <<>>
    /\ sync_call = [kind |-> "none"]
    /\ idt = <<>>
    /\ in_service = {}
    /\ int_call = [kind |-> "none"]
    /\ user_stack = [kind |-> "none"]
    /\ threads = [producer |-> [pc |-> "idle", idx |-> 0, val |-> 0, result |-> "none"],
                  consumer |-> [pc |-> "idle", idx |-> 0, item |-> 0, result |-> "none"]]
    /\ queue = ProducerConsumer_new

QueueUnchanged ==
    /\ UNCHANGED <<image, ext_call, interrupt_flag, lock_cells, guards, cells,
                   sync_call, idt, in_service, int_call, user_stack>>
    /\ MachineUnchanged

\* produce(val): `if self.uncosumed_count.load(Relaxed) == SIZE { return None }`
ProduceLoadCount ==
    /\ threads.producer.pc = "idle"
    /\ Len(queue.written) < MaxItems
    /\ threads' = IF queue.uncosumed_count = SIZE
                  THEN [threads EXCEPT !.producer.result = "None"]
                  ELSE [threads EXCEPT !.producer.pc = "idx",
                                       !.producer.val = Len(queue.written) + 1,
                                       !.producer.result = "none"]
    /\ UNCHANGED queue
    /\ QueueUnchanged

\* produce: idx = produce_idx.load(); produce_idx.store((idx + 1) % SIZE);
\* only the producer reads or writes produce_idx
ProduceAdvanceIdx ==
    /\ threads.producer.pc = "idx"
    /\ threads' = [threads EXCEPT !.producer.pc = "write",
                                  !.producer.idx = queue.produce_idx]
    /\ queue' = [queue EXCEPT !.produce_idx = (@ + 1) % SIZE]
    /\ QueueUnchanged

\* produce: (*self.queue.get())[idx] = MaybeUninit::new(val), a plain store
ProduceWrite ==
    /\ threads.producer.pc = "write"
    /\ threads' = [threads EXCEPT !.producer.pc = "add"]
    /\ queue' = [queue EXCEPT !.before[threads.producer.idx] =
                                  queue.slots[threads.producer.idx],
                              !.slots[threads.producer.idx] = threads.producer.val,
                              !.written = Append(@, threads.producer.val)]
    /\ QueueUnchanged

\* produce: uncosumed_count.fetch_add(1, Relaxed); Some(())
ProduceFetchAdd ==
    /\ threads.producer.pc = "add"
    /\ threads' = [threads EXCEPT !.producer.pc = "idle", !.producer.result = "Some"]
    /\ queue' = [queue EXCEPT !.uncosumed_count = @ + 1]
    /\ QueueUnchanged

\* consume(): `if self.uncosumed_count.load(Relaxed) == 0 { return None }`
ConsumeLoadCount ==
    /\ threads.consumer.pc = "idle"
    /\ threads' = IF queue.uncosumed_count = 0
                  THEN [threads EXCEPT !.consumer.result = "None"]
                  ELSE [threads EXCEPT !.consumer.pc = "idx",
                                       !.consumer.result = "none"]
    /\ UNCHANGED queue
    /\ QueueUnchanged

\* consume: idx = consume_idx.load(); consume_idx.store((idx + 1) % SIZE);
\* only the consumer reads or writes consume_idx
ConsumeAdvanceIdx ==
    /\ threads.consumer.pc = "idx"
    /\ threads' = [threads EXCEPT !.consumer.pc = "read",
                                  !.consumer.idx = queue.consume_idx]
    /\ queue' = [queue EXCEPT !.consume_idx = (@ + 1) % SIZE]
    /\ QueueUnchanged

\* What the plain read of slot idx can return.  The producer's plain store
\* to the slot and this read are ordered by nothing: the count they meet at
\* is loaded and added to with Ordering::Relaxed, which orders no other
\* access, so the two are a data race and the read returns what the store
\* wrote or what the slot held before it.
assume_init_read(q, idx) == {q.slots[idx], q.before[idx]}

\* consume: item = (*self.queue.get())[idx].assume_init_read()
ConsumeRead ==
    /\ threads.consumer.pc = "read"
    /\ \E item \in assume_init_read(queue, threads.consumer.idx) :
         /\ threads' = [threads EXCEPT !.consumer.pc = "sub", !.consumer.item = item]
         /\ queue' = [queue EXCEPT
                         !.raced = @ \/ item # queue.slots[threads.consumer.idx]]
    /\ QueueUnchanged

\* consume: uncosumed_count.fetch_sub(1, Relaxed); Some(item)
ConsumeFetchSub ==
    /\ threads.consumer.pc = "sub"
    /\ threads' = [threads EXCEPT !.consumer.pc = "idle", !.consumer.result = "Some"]
    /\ queue' = [queue EXCEPT !.uncosumed_count = @ - 1,
                              !.consumed = Append(@, threads.consumer.item)]
    /\ QueueUnchanged

QueueNext ==
    \/ ProduceLoadCount
    \/ ProduceAdvanceIdx
    \/ ProduceWrite
    \/ ProduceFetchAdd
    \/ ConsumeLoadCount
    \/ ConsumeAdvanceIdx
    \/ ConsumeRead
    \/ ConsumeFetchSub

QueueSpec == QueueInit /\ [][QueueNext]_vars

\* ------------------------------------------------------------------------
\* Paging: properties
\* ------------------------------------------------------------------------

\* the PTE of the last virtual page, the last entry of the last page table
WindowPte == mem[LAST_PAGE_TABLE_PADDR][ENTRIES - 1]

\* C8: whenever translate_phys returns a pointer, 1 <= size <= 4096 and the
\* bytes [phys, phys + size - 1] lie in one physical frame, whatever frame the
\* transient window holds at the call.
C8_WindowWithinOnePage ==
    (last_call.kind = "translate_phys" /\ last_call.ok) =>
        /\ 1 <= last_call.size
        /\ last_call.size <= PAGE_SIZE
        /\ FrameOf(last_call.phys + (last_call.size - 1)) = FrameOf(last_call.phys)

\* C9: after a successful translate_phys for a frame F other than the last
\* page table's, the PTE of the last virtual page maps F and
\* current_phys_mapping is F, whatever an earlier call installed; and at all
\* times current_phys_mapping is the frame that PTE maps (None: it maps none).
C9_OneTransientWindow ==
    /\ (/\ last_call.kind = "translate_phys"
        /\ last_call.ok
        /\ FrameOf(last_call.phys) # LAST_PAGE_TABLE_PADDR)
           => /\ Present(WindowPte)
              /\ FrameOf(WindowPte) = FrameOf(last_call.phys)
              /\ current_phys_mapping = FrameOf(last_call.phys)
    /\ IF current_phys_mapping = NoMapping
       THEN ~Present(WindowPte)
       ELSE Present(WindowPte) /\ FrameOf(WindowPte) = current_phys_mapping

\* A map left the window on the page table it wrote, and a translate_phys for
\* the mapped page's frame then replaced it
C9_Witness ==
    /\ last_call.kind = "translate_phys"
    /\ last_call.ok
    /\ last_call.opt
    /\ FrameOf(last_call.phys) = FirstFreeFrame
    /\ prev_call.kind = "map"
    /\ prev_call.ok
    /\ Present(PdeOf(prev_call.virt))
    /\ FrameOf(PdeOf(prev_call.virt)) # FirstFreeFrame
    /\ current_phys_mapping = FirstFreeFrame

\* the frame [frame, frame + PAGE_SIZE - 1] lies in one free range
FrameIsFree(frame) ==
    \E i \in 1..Len(memory_ranges) :
        /\ memory_ranges[i].start <= frame
        /\ frame + (PAGE_SIZE - 1) <= memory_ranges[i].end

\* no entry of the page table in `frame` is present
TableIsEmpty(frame) == \A i \in 0..(ENTRIES - 1) : ~Present(mem[frame][i])

\* C5: once unmap has been applied to every mapped page of one page table (the
\* unmap that returned leaves no entry of the table present), the PDE of the
\* table's range is not present and the frame that held the table is in the
\* free range set.
C5_UnmapReclaimsTable ==
    (/\ last_call.kind = "unmap"
     /\ last_call.ok
     /\ Present(last_call.pre_pde)
     /\ TableIsEmpty(FrameOf(last_call.pre_pde)))
        => /\ ~Present(PdeOf(last_call.virt))
           /\ FrameIsFree(FrameOf(last_call.pre_pde))

\* Two pages of one page table were mapped by one map call, which allocated the
\* table, and the second unmap emptied and freed it
C5_Witness ==
    /\ last_call.kind = "unmap"
    /\ last_call.ok
    /\ Present(last_call.pre_pde)
    /\ TableIsEmpty(FrameOf(last_call.pre_pde))
    /\ ~Present(PdeOf(last_call.virt))
    /\ FrameIsFree(FrameOf(last_call.pre_pde))
    /\ num_calls >= 3

\* C6: on a freshly created directory, a successful map(0x20000000, 4096, true,
\* false) followed by unmap(0x20000000, true) leaves the free range set with
\* the total_size it had before the map.
C6_PageTableReclaim ==
    (/\ last_call.kind = "unmap"
     /\ last_call.virt = USER_VADDR
     /\ last_call.opt
     /\ prev_call.kind = "map"
     /\ prev_call.ok
     /\ prev_call.fresh
     /\ prev_call.virt = USER_VADDR
     /\ prev_call.size = PAGE_SIZE)
        => total_size(memory_ranges) = prev_call.pre_total

\* C7: if map(v, 4096, ..) succeeds and translate_virt(v) then returns p, then
\* map_to_phys_page(v', p, .., update = true, cacheable = true) succeeds for
\* every page-aligned v', and from then on translate_virt(v' + off) returns
\* p + off for 0 <= off < 4096 until v' is mapped again or unmapped.
C7_RoundTrip ==
    /\ (last_call.kind = "map_to_phys_page" /\ last_call.opt) => last_call.ok
    /\ \A a \in aliases, off \in {0, 4, PAGE_SIZE - 1} :
           LET r == translate_virt(Now, directory, a[1] + off)
           IN  r.some /\ r.val = a[2] + off

\* ------------------------------------------------------------------------
\* Properties of the kernel heap
\* ------------------------------------------------------------------------

\* the two calls before this state were dealloc(a) on an empty free list and
\* then dealloc(b) with b = a + size(a) rounded up to whole pages
FreedAdjacent ==
    /\ heap_prev.kind = "dealloc"
    /\ heap_prev.pre_head = NoEntry
    /\ heap_call.kind = "dealloc"
    /\ heap_call.ptr = heap_prev.ptr + AlignedSize(heap_prev.size)

\* C10: starting from an empty free list, after dealloc(a) and then dealloc(b)
\* with b = a + size(a) (sizes rounded up to whole pages), the free list is
\* exactly one node: its head is a, the node's page_count is the number of
\* pages of [a, b + size(b)), and no node follows it.
C10_FreedAdjacentCoalesce ==
    FreedAdjacent =>
        /\ free_pages_list = heap_prev.ptr
        /\ heap_mem[heap_prev.ptr].page_count =
               (AlignedSize(heap_prev.size) + AlignedSize(heap_call.size)) \div PAGE_SIZE
        /\ heap_mem[heap_prev.ptr].next = NoEntry


\* C11: every address p that alloc returns for a request rounded up to S bytes
\* has 0xC4000000 <= p and p + S <= 0xC4000000 + 2 MiB, and a request that the
\* free list does not serve and that would move the watermark past the end of
\* the window returns no address.
C11_AllocInsideWindow ==
    /\ (heap_call.kind = "alloc" /\ heap_call.ok) =>
           /\ KERNEL_ALLOCATIONS_BASE_VADDR <= heap_call.ptr
           /\ heap_call.ptr + AlignedSize(heap_call.size) <=
                  KERNEL_ALLOCATIONS_BASE_VADDR + HEAP_SIZE
    /\ (/\ heap_call.kind = "alloc"
        /\ ~heap_call.from_list
        /\ heap_call.pre_vaddr + AlignedSize(heap_call.size) >
               KERNEL_ALLOCATIONS_BASE_VADDR + HEAP_SIZE)
           => ~heap_call.ok

\* C12: an alloc whose layout has align > 4096 panics the kernel at the assert
\* of alloc_internal: it returns no address, and NEXT_AVAILABLE_VADDR and the
\* free list are as they were before the call.
C12_OverAlignedPanics ==
    (heap_call.kind = "alloc" /\ heap_call.align > PAGE_SIZE) =>
        /\ halted
        /\ ~heap_call.ok
        /\ next_available_vaddr = heap_call.pre_vaddr
        /\ free_pages_list = heap_call.pre_head

\* C12 as stated: an alloc whose layout has align > 4096 comes back to its
\* caller as a failed allocation, with NEXT_AVAILABLE_VADDR and the free list
\* as they were before the call.
C12_OverAlignedFails ==
    (heap_call.kind = "alloc" /\ heap_call.align > PAGE_SIZE) =>
        /\ ~halted
        /\ ~heap_call.ok
        /\ next_available_vaddr = heap_call.pre_vaddr
        /\ free_pages_list = heap_call.pre_head

\* an over-aligned alloc was made when the free list held pages
C12_Witness ==
    /\ heap_call.kind = "alloc"
    /\ heap_call.align > PAGE_SIZE
    /\ heap_prev.kind = "dealloc"
    /\ free_pages_list # NoEntry
    /\ halted

\* ------------------------------------------------------------------------
\* Processes and the scheduler: properties
\* ------------------------------------------------------------------------

\* C13: a process that has exited (its exit_code is set) is never the current
\* process again and the CPU never runs it again.
C13_ZombieIsTerminal ==
    \A p \in 0..1 :
        processes[p].present /\ is_zombie(processes[p])
            => current_process # p /\ cpu.pid # p

\* C14: a process inside yield that is switched out has in_kernel = true; a
\* process inside yield runs only after the ring-0 switch to the return eip
\* of yield; when yield returns in_kernel is false; and a switch to a process
\* with in_kernel = false is the ring-3 jump.
C14_InKernelDiscipline ==
    /\ \A p \in suspended : p # cpu.pid => processes[p].in_kernel
    /\ cpu.pid \in suspended => cpu.via = "ring0" /\ cpu.eip = YIELD_RETURN_EIP
    /\ sys_call.kind = "resume" => ~processes[sys_call.pid].in_kernel
    /\ sys_call.switched /\ ~processes[cpu.pid].in_kernel => cpu.via = "ring3"

\* a process that had yielded and was switched out has been resumed, and
\* another one has been entered in ring 3 while it was out
C14_Witness ==
    /\ sys_call.kind = "resume"
    /\ sys_call.pid = 0
    /\ cpu.via = "ring0"
    /\ processes[1].present
    /\ ~processes[1].in_kernel

\* the whole frame at `frame` lies in a range of the free set rs
FreeIn(rs, frame) ==
    \E i \in 1..Len(rs) : rs[i].start <= frame /\ frame + (PAGE_SIZE - 1) <= rs[i].end

\* C15: right after a fork every user page of the child is mapped to a frame
\* that was free before the fork, that backs no user page of the parent and
\* no other page of the child, and that holds what the parent's page at the
\* same address held when fork was called.
C15_ForkCopiesPages ==
    sys_call.kind = "fork" /\ sys_call.ok =>
        \A i \in 1..Len(sys_call.pages) :
            \E child_paddr \in {PhysOfUserPointer(Now, processes[1].page_directory,
                                                  sys_call.pages[i].vaddr)} :
                /\ child_paddr >= 0
                /\ FreeIn(sys_call.pre_ranges, child_paddr)
                /\ \A j \in 1..Len(sys_call.pages) :
                       /\ sys_call.pages[j].paddr # child_paddr
                       /\ j # i =>
                              PhysOfUserPointer(Now, processes[1].page_directory,
                                                sys_call.pages[j].vaddr) # child_paddr
                /\ mem[child_paddr] = sys_call.pages[i].content

\* C16: right after exit(code) the process has exit_code = code, no open
\* file descriptor and no virtual memory range, and every frame that backed
\* one of its user pages is in the free set.
C16_ExitReleasesAll ==
    sys_call.kind = "exit" /\ sys_call.ok =>
        /\ processes[1].exit_code = sys_call.arg
        /\ \A fd \in 0..(NUM_FILE_DESCRIPTORS - 1) :
               processes[1].file_descriptors[fd] = NoFd
        /\ \A i \in 0..(NUM_VM_RANGES - 1) :
               processes[1].virtual_memory_ranges[i] = NoVmRange
        /\ \A i \in 1..Len(sys_call.pages) :
               /\ sys_call.pages[i].paddr >= 0
               /\ FreeIn(memory_ranges, sys_call.pages[i].paddr)

\* a process with an open descriptor and two user pages has exited
C16_Witness ==
    /\ sys_call.kind = "exit"
    /\ sys_call.ok
    /\ sys_call.pre.file_descriptors[3] # NoFd
    /\ Len(sys_call.pages) = 2
    /\ processes[1].exit_code = 3

\* ------------------------------------------------------------------------
\* File system calls: properties
\* ------------------------------------------------------------------------

FsKinds == {"read", "open", "close", "stat", "getcwd", "changecwd"}

\* the descriptor number fd is not open in the process proc
NotOpen(proc, fd) ==
    fd >= NUM_FILE_DESCRIPTORS \/ proc.file_descriptors[fd] = NoFd

\* C17: when Read, Open, Close, Stat, GetCWD or ChangeCWD has returned a
\* negative error code, the caller's descriptor table, cwd inode and virtual
\* memory ranges are what they were before the call, and so is the offset of
\* every file description it has open.
C17_FailureKeepsState ==
    sys_call.kind \in FsKinds /\ ~sys_call.panic /\ sys_call.ret < 0 =>
        /\ processes[sys_call.pid].file_descriptors = sys_call.pre.file_descriptors
        /\ processes[sys_call.pid].cwd_inode = sys_call.pre.cwd_inode
        /\ processes[sys_call.pid].virtual_memory_ranges
               = sys_call.pre.virtual_memory_ranges
        /\ \A fd \in 0..(NUM_FILE_DESCRIPTORS - 1) :
               sys_call.pre.file_descriptors[fd] # NoFd =>
                   file_descriptions[sys_call.pre.file_descriptors[fd] + 1].offset
                       = sys_call.pre_descriptions[sys_call.pre.file_descriptors[fd] + 1].offset

\* a read of an open directory has failed for want of room, after an entry
\* of the directory had been found
C17_Witness ==
    /\ sys_call.kind = "read"
    /\ sys_call.ret = to_i32(BufferTooSmall)
    /\ sys_call.pre.file_descriptors[sys_call.arg.fd] # NoFd

\* C18 as claimed: Read on any descriptor number that is not open in the
\* caller returns -InvalidFileDescriptor, writes nothing and changes neither
\* the process nor a file description.
C18_ReadUnopened ==
    sys_call.kind = "read" /\ NotOpen(sys_call.pre, sys_call.arg.fd) =>
        /\ sys_call.ret = to_i32(InvalidFileDescriptor)
        /\ sys_call.buf = <<>>
        /\ processes[sys_call.pid] = sys_call.pre
        /\ file_descriptions = sys_call.pre_descriptions

\* C18: Read on a descriptor number other than 0 that is not open in the
\* caller returns -InvalidFileDescriptor, writes nothing and changes neither
\* the process nor a file description.
C18_ReadUnopenedNotStdin ==
    sys_call.kind = "read" /\ sys_call.arg.fd # 0
        /\ NotOpen(sys_call.pre, sys_call.arg.fd) =>
            /\ sys_call.ret = to_i32(InvalidFileDescriptor)
            /\ sys_call.buf = <<>>
            /\ processes[sys_call.pid] = sys_call.pre
            /\ file_descriptions = sys_call.pre_descriptions

\* descriptor 42 has been read by a process that has descriptor 3 open
C18_Witness ==
    /\ sys_call.kind = "read"
    /\ sys_call.arg.fd = 42
    /\ sys_call.arg.num_bytes = DIRENT_SIZE
    /\ sys_call.pre.file_descriptors[3] # NoFd
    /\ sys_call.ret = to_i32(InvalidFileDescriptor)

\* C19: after an Open that returned a descriptor, the description table has
\* one entry more and its old entries are unchanged; the slot of the
\* returned number was free and now holds the index of the new entry; and
\* every other slot of the caller's table is unchanged.
C19_OpenAllocatesOne ==
    sys_call.kind = "open" /\ sys_call.ok =>
        /\ Len(file_descriptions) = Len(sys_call.pre_descriptions) + 1
        /\ SubSeq(file_descriptions, 1, Len(sys_call.pre_descriptions))
               = sys_call.pre_descriptions
        /\ sys_call.ret \in 0..(NUM_FILE_DESCRIPTORS - 1)
        /\ sys_call.pre.file_descriptors[sys_call.ret] = NoFd
        /\ processes[sys_call.pid].file_descriptors[sys_call.ret]
               = Len(sys_call.pre_descriptions)
        /\ \A fd \in 0..(NUM_FILE_DESCRIPTORS - 1) :
               fd # sys_call.ret =>
                   processes[sys_call.pid].file_descriptors[fd]
                       = sys_call.pre.file_descriptors[fd]

\* the characters of buf before its first NUL
CStr(buf) ==
    SubSeq(buf, 1, (CHOOSE i \in 1..Len(buf) :
                        buf[i] = "NUL" /\ \A j \in 1..(i - 1) : buf[j] # "NUL") - 1)

\* C20: a GetCWD with a large enough buffer that follows a successful
\* ChangeCWD returns, and the string it wrote resolves from the root to the
\* directory that is the cwd.
C20_GetCwdRoundTrip ==
    sys_call.kind = "getcwd" /\ sys_call.prev_kind = "changecwd" /\ sys_call.prev_ok
        /\ sys_call.arg.size = 2 * MaxDepth + 2 =>
            /\ ~sys_call.panic
            /\ sys_call.ret >= 0
            /\ resolve_path_to_inode(CStr(sys_call.buf), ROOT_INODE)
                   = Resolved(TRUE, sys_call.pre.cwd_inode, "Directory")

\* ------------------------------------------------------------------------
\* Path resolution: properties
\* ------------------------------------------------------------------------

\* C21 as claimed: resolve("/") is (2, Directory), and for every path p,
\* resolve(p) = resolve(p + "/") exactly when p resolves to a directory.
C21_SlashIffDirectory ==
    /\ resolve_path_to_inode(<<"/">>, 3) = Resolved(TRUE, ROOT_INODE, "Directory")
    /\ ext_call.kind = "resolve" =>
           (ext_call.result = ext_call.with_slash
                <=> ext_call.result.some /\ ext_call.result.entry_type = "Directory")

\* C21: resolve("/") is (2, Directory), and for every path p that resolves
\* and does not end with "/", resolve(p) = resolve(p + "/") exactly when p
\* resolves to a directory.
C21_SlashIffDirectoryResolved ==
    /\ resolve_path_to_inode(<<"/">>, 3) = Resolved(TRUE, ROOT_INODE, "Directory")
    /\ ext_call.kind = "resolve" /\ ext_call.result.some
           /\ ext_call.path[Len(ext_call.path)] # "/" =>
               (ext_call.result = ext_call.with_slash
                    <=> ext_call.result.entry_type = "Directory")

\* "/f" has been resolved to the regular file, and "/f/" to nothing
C21_Witness ==
    /\ ext_call.kind = "resolve"
    /\ ext_call.path = <<"/", "f">>
    /\ ext_call.result = Resolved(TRUE, 4, "RegularFile")
    /\ ~ext_call.with_slash.some

\* ------------------------------------------------------------------------
\* The ext2 parser: properties
\* ------------------------------------------------------------------------

\* The (name, inode) pairs of the entries stored in the blocks of a directory
\* of the image that are not removed
StoredEntries(inode) ==
    IF inode = ROOT_INODE
    THEN {<<(<<46>>), ROOT_INODE>>, <<(<<46, 46>>), ROOT_INODE>>,
          <<(<<102>>), SMALL_FILE_INODE>>, <<(<<103>>), BIG_DIR_INODE>>,
          <<(<<104>>), BIG_FILE_INODE>>}
    ELSE {<<BigName(k), 1000 + k>> : k \in 0..(ManyBlocks - 1)}

\* C22: for_each_directory_entry with a callback that returns Continue calls
\* it once for every stored entry with a non-zero inode, in all the blocks
\* of the directory, and for nothing else.
C22_VisitsStoredEntries ==
    ext_call.kind = "entries" =>
        /\ ~ext_call.panic
        /\ Len(ext_call.result) = Cardinality(StoredEntries(ext_call.inode))
        /\ {<<ext_call.result[k].name, ext_call.result[k].inode>> :
                k \in 1..Len(ext_call.result)} = StoredEntries(ext_call.inode)

\* C23: the calls of get_next_directory_entry from opaque_offset 0 on, each
\* with the offset the one before returned, return the entries that
\* for_each_directory_entry visits, in its order and once each, and then None.
C23_NextMatchesForEach ==
    ext_call.kind = "next"
        /\ ~for_each_directory_entry(image, ext_call.inode).panic =>
            /\ ~ext_call.panic
            /\ Len(ext_call.returned)
                   <= Len(for_each_directory_entry(image, ext_call.inode).state)
            /\ ext_call.returned
                   = SubSeq(for_each_directory_entry(image, ext_call.inode).state,
                            1, Len(ext_call.returned))
            /\ ~ext_call.result.some =>
                   ext_call.returned
                       = for_each_directory_entry(image, ext_call.inode).state

\* C24: for a file of size n without holes, get_contents_with_offset returns
\* min(len(buf), max(0, n - offset)) and has set buf[i] to the byte offset + i
\* of the file for every i below that count, whatever the offset.
C24_ContentsAtOffset ==
    ext_call.kind = "contents" =>
        /\ ~ext_call.panic
        /\ ext_call.result
               = Min(ext_call.buffer_len,
                     Max(0, get_inode(image, ext_call.inode).size_low
                                - ext_call.offset))
        /\ Len(ext_call.out) = ext_call.result
        /\ \A k \in 1..Len(ext_call.out) :
               ext_call.out[k] = FileByte(ext_call.offset + k - 1)

\* The blocks of the pointers i.. of a doubly indirect block up to the first
\* zero pointer at either level; stopped: a zero pointer was met
RECURSIVE DoublyBeforeZero(_, _, _)
DoublyBeforeZero(img, block, i) ==
    IF i > num_ptrs_per_block THEN [blocks |-> <<>>, stopped |-> FALSE]
    ELSE IF get_ptrs_block(img, block)[i] = 0 THEN [blocks |-> <<>>, stopped |-> TRUE]
    ELSE LET here == UntilZero(get_ptrs_block(img, get_ptrs_block(img, block)[i]), 1)
             rest == DoublyBeforeZero(img, block, i + 1)
         IN  IF Len(here) < num_ptrs_per_block
             THEN [blocks |-> here, stopped |-> TRUE]
             ELSE [blocks |-> here \o rest.blocks, stopped |-> rest.stopped]

\* The blocks of an inode in the order direct, singly indirect, doubly
\* indirect, up to the first zero pointer at any level (no inode of the image
\* has a triply indirect block)
BlocksBeforeZero(img, inode) ==
    LET node == get_inode(img, inode)
        direct == UntilZero(node.direct_pointers, 1)
        singly == IF node.singly_indirect_pointer = 0 THEN <<>>
                  ELSE UntilZero(get_ptrs_block(img, node.singly_indirect_pointer), 1)
    IN  IF Len(direct) < INODE_DIRECT_PTR_COUNT THEN direct
        ELSE IF Len(singly) < num_ptrs_per_block \/ node.doubly_indirect_pointer = 0
        THEN direct \o singly
        ELSE direct \o singly
                 \o DoublyBeforeZero(img, node.doubly_indirect_pointer, 1).blocks

\* C25: for_each_data_block gives the callback the blocks of the direct
\* pointers, then those of the singly, doubly and triply indirect trees, and
\* the first zero pointer at any level ends the iteration: the callback gets
\* neither that pointer's block nor any block after it.
C25_ZeroPointerEnds ==
    ext_call.kind = "blocks" =>
        /\ ~ext_call.panic
        /\ ext_call.result = BlocksBeforeZero(image, ext_call.inode)

\* ceil(x / y) for y > 0
CeilDiv(x, y) == (x + y - 1) \div y

\* C26: the block group check of parse accepts a superblock exactly when
\* ceil(block_count / blocks per group) equals ceil(inode_count / inodes per
\* group); a superblock where the two differ is rejected.
C26_GroupCountsAgree ==
    ext_call.kind = "parse"
        /\ ext_call.super_block.num_blocks_in_block_group > 0
        /\ ext_call.super_block.num_inodes_in_block_group > 0 =>
            (ext_call.accepted
                <=> CeilDiv(ext_call.super_block.block_count,
                            ext_call.super_block.num_blocks_in_block_group)
                      = CeilDiv(ext_call.super_block.inode_count,
                                ext_call.super_block.num_inodes_in_block_group))

\* C27: while a guard of a LockCell made by new() is held, however many are
\* held and in whatever order they are dropped, the interrupts are masked;
\* and when every guard has been dropped the interrupt flag has the value it
\* had before the first lock().
C27_MaskedWhileHeld ==
    /\ (\E guard \in guards : lock_cells[guard.lock].interruptable) => ~interrupt_flag
    /\ sync_call.kind = "drop" /\ guards = {} => interrupt_flag = sync_call.pre_if

\* C28: an ExclusiveCell has at most one guard at any time: acquire panics
\* when the guard of an earlier acquire has not been dropped, and when it has
\* been dropped acquire succeeds and reads the value last written through
\* that guard.
C28_OneGuard ==
    /\ \A g1 \in guards, g2 \in guards : g1.cell = g2.cell => g1 = g2
    /\ sync_call.kind = "acquire" =>
           /\ sync_call.panic <=> sync_call.was_held
           /\ ~sync_call.panic =>
                  /\ sync_call.observed = sync_call.written[sync_call.cell]
                  /\ \E guard \in guards : guard.cell = sync_call.cell

\* A cell is acquired again after its first guard wrote a new value and was
\* dropped
C28_Witness ==
    /\ sync_call.kind = "acquire"
    /\ ~sync_call.panic
    /\ sync_call.calls = 2
    /\ Cardinality(guards) = 1
    /\ sync_call.observed = MaxValue
    /\ sync_call.initial[sync_call.cell] = 0
    /\ cells[sync_call.cell].in_use
    /\ \A i \in 1..NumCells : i # sync_call.cell => ~cells[i].in_use

\* The vectors whose gate is present
InstalledVectors == {vector \in 0..(IDT_ENTRIES - 1) : GatePresent(idt[vector])}

\* The vectors that `int n` at privilege level 3 enters
Ring3Vectors ==
    {vector \in InstalledVectors :
        /\ GateDpl(idt[vector]) = 3
        /\ GateType(idt[vector]) \in {INTERRUPT_GATE_32, TRAP_GATE_32}}

\* C29, as stated: in the IDT that interrupts::init builds, vector 0x67 is a
\* trap gate with DPL 3 and every other installed gate is an interrupt gate
\* with DPL 0, so that 0x67 is the only vector a software interrupt of ring 3
\* enters.
C29_OnlySyscallGateForRing3 ==
    int_call.kind # "none" =>
        /\ GatePresent(idt[SYSCALL_VECTOR])
        /\ GateType(idt[SYSCALL_VECTOR]) = TRAP_GATE_32
        /\ GateDpl(idt[SYSCALL_VECTOR]) = 3
        /\ \A vector \in InstalledVectors \ {SYSCALL_VECTOR} :
               /\ GateType(idt[vector]) = INTERRUPT_GATE_32
               /\ GateDpl(idt[vector]) = 0
        /\ Ring3Vectors = {SYSCALL_VECTOR}
        /\ int_call.kind = "int" /\ int_call.cpl = 3 /\ int_call.invoked
               => int_call.vector = SYSCALL_VECTOR

\* C29, amended: vector 0x67 is a trap gate with DPL 3, the gates of the
\* vectors 3 and 4 are interrupt gates with DPL 3, every other installed gate
\* (the exception vectors 0 to 21 but 15, and the IRQ vectors 32 to 47) is an
\* interrupt gate with DPL 0, and 3, 4 and 0x67 are the only vectors a
\* software interrupt of ring 3 enters.
C29_Ring3Gates ==
    int_call.kind # "none" =>
        /\ InstalledVectors = ExceptionVectors \cup IrqVectors \cup {SYSCALL_VECTOR}
        /\ GateType(idt[SYSCALL_VECTOR]) = TRAP_GATE_32
        /\ GateDpl(idt[SYSCALL_VECTOR]) = 3
        /\ \A vector \in {3, 4} :
               /\ GateType(idt[vector]) = INTERRUPT_GATE_32
               /\ GateDpl(idt[vector]) = 3
        /\ \A vector \in InstalledVectors \ {3, 4, SYSCALL_VECTOR} :
               /\ GateType(idt[vector]) = INTERRUPT_GATE_32
               /\ GateDpl(idt[vector]) = 0
        /\ Ring3Vectors = {3, 4, SYSCALL_VECTOR}
        /\ int_call.kind = "int" /\ int_call.cpl = 3 =>
               (int_call.invoked <=> int_call.vector \in {3, 4, SYSCALL_VECTOR})

\* Ring 3 executes int 0x67 and enters the system call handler
C29_Witness ==
    /\ int_call.kind = "int"
    /\ int_call.cpl = 3
    /\ int_call.vector = SYSCALL_VECTOR
    /\ int_call.invoked
    /\ int_call.device = "syscall"
    /\ ~int_call.panic

\* The specific EOI for irq is among the bytes written to the PICs
EoiSent(irq, out) ==
    \E k \in 1..Len(out) :
        out[k] = Out8(IF irq >= 8 THEN SLAVE_PIC_CMD_PORT ELSE MASTER_PIC_CMD_PORT,
                      PIC_SPECIFIC_EOI_CMD + (irq % 8))

\* C30: an IRQ 7 or 15 delivered with its in-service bit clear is spurious:
\* no device handler runs and no EOI for it is sent, but for a spurious IRQ 15
\* the cascade line is acknowledged at the master; with the bit set the IRQ is
\* handled and acknowledged with its EOI.
C30_SpuriousIrq ==
    int_call.kind = "irq" /\ int_call.irq \in {7, 15} =>
        /\ ~int_call.panic
        /\ ~int_call.real =>
               /\ int_call.spurious
               /\ int_call.device = "none"
               /\ ~EoiSent(int_call.irq, int_call.out)
               /\ int_call.irq = 15 <=> EoiSent(PIC_SLAVE_IRQ, int_call.out)
        /\ int_call.real =>
               /\ ~int_call.spurious
               /\ int_call.device # "none"
               /\ EoiSent(int_call.irq, int_call.out)

\* The u32 that user code reads at address addr of the stack page; -1 when
\* the address is not inside the page
StackWord(page, addr) ==
    LET o == addr - USER_STACK_VADDR
    IN  IF o < 0 \/ o + 4 > STACK_PAGE_BYTES THEN -1
        ELSE IF \E k \in 0..3 : page[o + k] = UNWRITTEN THEN -1
        ELSE page[o] + 256 * page[o + 1] + 65536 * page[o + 2] + 16777216 * page[o + 3]

\* The bytes before the first NUL at address addr of the stack page; <<-1>>
\* when the string is not inside the page
RECURSIVE StackString(_, _)
StackString(page, addr) ==
    LET o == addr - USER_STACK_VADDR
    IN  IF o < 0 \/ o >= STACK_PAGE_BYTES THEN <<-1>>
        ELSE IF page[o] = 0 THEN <<>>
        ELSE <<page[o]>> \o StackString(page, addr + 1)

\* The array of Len(strs) + 1 pointers at address array holds pointers to
\* copies of the strings, in their order, and then NULL
StackArray(page, array, strs) ==
    /\ \A k \in 1..Len(strs) :
           StackString(page, StackWord(page, array + 4 * (k - 1))) = strs[k]
    /\ StackWord(page, array + 4 * Len(strs)) = 0

\* C31: after replace_with_elf(elf, argv, envp) the words at esp, esp + 4 and
\* esp + 8 are argc = len(argv), a pointer to the argv array and a pointer to
\* the envp array; each array holds a pointer per string, in order, and then
\* NULL, and each pointer is to a NUL terminated copy of its string inside
\* the stack page.
C31_StackLayout ==
    user_stack.kind = "exec" /\ ~user_stack.panic =>
        /\ StackWord(user_stack.page, user_stack.esp) = Len(user_stack.argv)
        /\ StackArray(user_stack.page, StackWord(user_stack.page, user_stack.esp + 4),
                      user_stack.argv)
        /\ StackArray(user_stack.page, StackWord(user_stack.page, user_stack.esp + 8),
                      user_stack.envp)

\* An execve with two different arguments and one environment string
C31_Witness ==
    /\ user_stack.kind = "exec"
    /\ ~user_stack.panic
    /\ user_stack.argv = <<<<97>>, <<98, 97>>>>
    /\ user_stack.envp = <<<<98>>>>
    /\ StackWord(user_stack.page, user_stack.esp) = 2

\* C32: however many callers contend for a LockCell, it has at most one guard
\* at any time: lock() returns only when no other guard is outstanding.
C32_OneHolder ==
    /\ Cardinality(guards) <= 1
    /\ Cardinality({t \in Callers : threads[t].pc = "held"}) <= 1
    /\ sync_call.kind = "lock" => guards = {LockCellGuard(sync_call.caller,
                                                threads[sync_call.caller].ticket,
                                                threads[sync_call.caller].unmask_interrupts)}

\* lock() returns to a caller while the two others spin
C32_Witness ==
    /\ sync_call.kind = "lock"
    /\ threads[sync_call.caller].pc = "held"
    /\ \A t \in Callers \ {sync_call.caller} : threads[t].pc = "spin"

\* C33: the callers get the lock in the order in which they drew their
\* tickets, and a caller that waits in lock() gets the lock at last, when
\* every holder drops its guard at last.
C33_Fair ==
    /\ [](sync_call.in_order)
    /\ \A t \in Callers : (threads[t].pc = "spin") ~> (threads[t].pc = "held")

\* The caller that drew the last of three tickets gets the lock after the two
\* before it
C33_Witness ==
    /\ sync_call.kind = "lock"
    /\ sync_call.in_order
    /\ sync_call.waiting = <<>>
    /\ lock_cells[1].owner_ticket = 2
    /\ lock_cells[1].available_ticket = 3
    /\ threads[sync_call.caller].ticket = 2

\* ------------------------------------------------------------------------
\* The kernel heap: the shape of the free list, and what is live
\* ------------------------------------------------------------------------

\* The entries met from `entry` on by following next, at most `fuel` of them
RECURSIVE FreeListWalk(_, _, _)
FreeListWalk(entries, entry, fuel) ==
    IF entry = NoEntry \/ fuel = 0 THEN <<>>
    ELSE <<entry>> \o FreeListWalk(entries, entries[entry].next, fuel - 1)

\* The walk from FREE_PAGES_LIST, one step longer than a list without a cycle
\* can be
FreeListNodes == FreeListWalk(heap_mem, free_pages_list, Cardinality(HeapAddrs) + 1)

\* C34: after any sequence of alloc and dealloc calls the free list is a
\* finite chain without a cycle: the walk from the head ends at an entry
\* without a next, and meets no entry twice.
C34_FreeListAcyclic ==
    /\ Len(FreeListNodes) <= Cardinality(HeapAddrs)
    /\ \A i, j \in 1..Len(FreeListNodes) : i # j => FreeListNodes[i] # FreeListNodes[j]

\* the bytes of the pages of an allocation of `size` bytes at ptr, by page
AllocationPages(ptr, size) ==
    {ptr + k * PAGE_SIZE : k \in 0..(AlignedSize(size) \div PAGE_SIZE - 1)}

\* the pages the entries of the free list cover
FreeListPages ==
    UNION {{FreeListNodes[i] + k * PAGE_SIZE :
                k \in 0..(heap_mem[FreeListNodes[i]].page_count - 1)} :
           i \in 1..Len(FreeListNodes)}

\* C35: two allocations that are both live (returned by alloc and not yet
\* given to dealloc) share no page, and no live allocation has a page that an
\* entry of the free list covers.
C35_LiveDisjoint ==
    /\ \A a, b \in allocations :
           a # b => AllocationPages(a[1], a[2]) \cap AllocationPages(b[1], b[2]) = {}
    /\ \A a \in allocations : AllocationPages(a[1], a[2]) \cap FreeListPages = {}

\* the last call was an alloc the free list did not serve and that was
\* refused because it would run past the end of the heap's window
RefusedForRoom(call) ==
    /\ call.kind = "alloc"
    /\ ~call.from_list
    /\ align_accepted(call.align)
    /\ no_room(call.pre_vaddr, AlignedSize(call.size))

\* C36: an alloc that fails because the request would run past the end of
\* the 2 MiB window leaves NEXT_AVAILABLE_VADDR as it was, so that a later
\* request that fits behind the old watermark is not refused for room.
C36_FailedAllocKeepsWatermark ==
    /\ RefusedForRoom(heap_call) => next_available_vaddr = heap_call.pre_vaddr
    /\ (/\ RefusedForRoom(heap_prev)
        /\ heap_call.kind = "alloc"
        /\ ~heap_call.from_list
        /\ align_accepted(heap_call.align)
        /\ ~no_room(heap_prev.pre_vaddr, AlignedSize(heap_call.size)))
           => heap_call.ok

\* ------------------------------------------------------------------------
\* Paging: a map that fails
\* ------------------------------------------------------------------------

\* C37: when map returns failure, the free physical memory and the page
\* tables are as they were before the call: every frame the call allocated
\* is free again, and every page translates as it did before.
C37_FailedMapRestores ==
    [][(/\ num_calls' = num_calls + 1
        /\ last_call'.kind = "map"
        /\ ~last_call'.ok)
           => /\ memory_ranges' = memory_ranges
              /\ \A v \in VirtPages :
                     /\ translate_virt(Now', directory', v).some
                            = translate_virt(Now, directory, v).some
                     /\ translate_virt(Now', directory', v).val
                            = translate_virt(Now, directory, v).val]_vars

\* ------------------------------------------------------------------------
\* File descriptions: what a close gives back
\* ------------------------------------------------------------------------

\* some descriptor of some process names entry `desc` of the global table
Referenced(desc) ==
    \E p \in DOMAIN processes :
        /\ processes[p] # NoProcess
        /\ \E fd \in 0..(NUM_FILE_DESCRIPTORS - 1) :
               processes[p].file_descriptors[fd] = desc

\* C38: an entry of the global description table that Open allocated is free
\* again once every descriptor that names it has been closed: after a Close
\* that took away the last descriptor of an entry, add_description can hand
\* that entry out again.
C38_ClosedDescriptionFreed ==
    (sys_call.kind = "close" /\ sys_call.ok) =>
        LET desc == sys_call.pre.file_descriptors[sys_call.arg.fd]
        IN  ~Referenced(desc) => Len(file_descriptions) <= desc

\* ------------------------------------------------------------------------
\* Fork and the slots of the scheduler
\* ------------------------------------------------------------------------

\* a process without the registers the entry into a system call and its
\* return value set
WithoutRegisters(proc) == [proc EXCEPT !.eax = 0, !.eip = 0]

\* C39: Fork replaces no live process: every slot of the process table that
\* a Fork writes, other than the caller's, was empty or held a zombie, and
\* the caller is still in its slot after the call, unchanged but for its
\* registers.
C39_ForkKeepsLiveProcesses ==
    [][(/\ num_sys_calls' = num_sys_calls + 1
        /\ sys_call'.kind = "fork")
           => /\ \A p \in DOMAIN processes :
                     (p # current_process /\ processes'[p] # processes[p])
                         => (~processes[p].present \/ processes[p].exit_code # NoExit)
              /\ processes'[current_process].present
              /\ WithoutRegisters(processes'[current_process])
                     = WithoutRegisters(processes[current_process])]_vars

\* ------------------------------------------------------------------------
\* The producer and consumer queue: properties
\* ------------------------------------------------------------------------

\* The items consume has returned are the first items written, in their
\* order
DeliveredInOrder ==
    /\ Len(queue.consumed) <= Len(queue.written)
    /\ \A k \in 1..Len(queue.consumed) : queue.consumed[k] = queue.written[k]

\* C40: with one producer and one consumer running concurrently the items
\* come out in the order they were produced, none lost, none twice and none
\* read before it was written, and the count of unconsumed items stays
\* between 0 and SIZE.
C40_InOrderDelivery ==
    /\ DeliveredInOrder
    /\ queue.uncosumed_count \in 0..SIZE

\* as long as every read has returned the latest store to its slot, the
\* queue delivers in order
OrderedReadsDeliver == ~queue.raced => C40_InOrderDelivery

====
